---- MODULE Spec2Model ----
(***************************************************************************)
(* A model of hunter-backend: the on-demand run server (webhook_server.py), *)
(* the Run Coordinator (run.py), the store client (supabase_client.py),     *)
(* the retrying GET (http_utils.py), the Error-Page Guard                  *)
(* (scrapers/common.py), the per-source crawls and normalizers              *)
(* (scrapers/*.py), the Apify webhook pipeline (apify_facebook.py), the     *)
(* archive step with the runs it reads, the price parser (price_parser.py)  *)
(* and the AMW date parser (scrapers/amw.py).                               *)
(*                                                                         *)
(* Text is a sequence of one-character strings, so that lower-casing,       *)
(* joining, stripping and substring search are computed as the code         *)
(* computes them.  A Polish letter is written as an ASCII digraph           *)
(* ("l/" for l-stroke, "a," for a-ogonek, ...): one element, one letter.    *)
(* An optional value is None (the empty tuple) or Some(v) (a 1-tuple).      *)
(***************************************************************************)
EXTENDS Naturals, Sequences, FiniteSets, TLC

VARIABLES
    run_state,   \* webhook_server._run_state
    run_lock,    \* webhook_server._run_lock: 0 when free, else the holder
    req,         \* the HTTP requests being served, one handler thread each
    worker,      \* the background threads started by api_run
    now,         \* the wall clock read by datetime.now
    config,      \* what get_config() returns
    run,         \* one invocation of run.run_scraper: its inputs and result
    crawl,       \* one source crawl: the site it reads, its rows and its steps
    hook,        \* one invocation of apify_facebook.process_apify_dataset
    site,        \* the remote sources and the store, as the server's runs find them
    store,       \* the listings table, and the upsert_listings calls made on it
    fetch,       \* one invocation of http_utils.sync_get_with_retry
    parse        \* one call of a text parser: its argument and its result

vars == <<run_state, run_lock, req, worker, now, config, run, crawl, hook, site, store, fetch,
          parse>>

----------------------------------------------------------------------------
(* Bounds of the model. *)

NumTriggers == 2    \* POST /api/run requests
NumQueries == 1     \* GET /api/run/status requests
MaxFound == 1       \* rows one source crawl returns in the server model
MaxRows == 2        \* rows one crawl returns in the run_scraper model
MaxItems == 2       \* items of one Apify dataset / documents of one crawl

----------------------------------------------------------------------------
(* Optional values and text. *)

None == <<>>
Some(v) == <<v>>

Min(a, b) == IF a <= b THEN a ELSE b
Max(a, b) == IF a >= b THEN a ELSE b

\* str.lower() on the letters the model's texts use.
LowerChar(c) ==
    CASE c = "A" -> "a" [] c = "B" -> "b" [] c = "C" -> "c" [] c = "D" -> "d"
      [] c = "E" -> "e" [] c = "F" -> "f" [] c = "G" -> "g" [] c = "H" -> "h"
      [] c = "I" -> "i" [] c = "J" -> "j" [] c = "K" -> "k" [] c = "L" -> "l"
      [] c = "M" -> "m" [] c = "N" -> "n" [] c = "O" -> "o" [] c = "P" -> "p"
      [] c = "Q" -> "q" [] c = "R" -> "r" [] c = "S" -> "s" [] c = "T" -> "t"
      [] c = "U" -> "u" [] c = "V" -> "v" [] c = "W" -> "w" [] c = "X" -> "x"
      [] c = "Y" -> "y" [] c = "Z" -> "z" [] c = "L/" -> "l/" [] c = "A," -> "a,"
      [] c = "E," -> "e," [] OTHER -> c

Lower(s) == [i \in 1..Len(s) |-> LowerChar(s[i])]

\* The whitespace of the model's texts: space, newline and the no-break
\* space ("nbsp"); str.strip() and the regular expression class \s take all.
IsSpace(c) == c \in {" ", "\n", "nbsp"}

\* str.strip()
RECURSIVE LStrip(_)
LStrip(s) == IF s # <<>> /\ IsSpace(Head(s)) THEN LStrip(Tail(s)) ELSE s

RECURSIVE RStrip(_)
RStrip(s) ==
    IF s # <<>> /\ IsSpace(s[Len(s)]) THEN RStrip(SubSeq(s, 1, Len(s) - 1)) ELSE s

Strip(s) == RStrip(LStrip(s))

\* `p in s` for strings
Contains(s, p) ==
    \E i \in 1..(Len(s) + 1) :
        /\ i + Len(p) - 1 <= Len(s)
        /\ SubSeq(s, i, i + Len(p) - 1) = p

\* " ".join(parts)
RECURSIVE JoinSpace(_)
JoinSpace(parts) ==
    IF parts = <<>> THEN <<>>
    ELSE IF Len(parts) = 1 THEN parts[1]
    ELSE parts[1] \o <<" ">> \o JoinSpace(Tail(parts))

\* `x or ""` for an optional string
OrEmpty(o) == IF o = None THEN <<>> ELSE o[1]

\* s[:n]
Prefix(s, n) == SubSeq(s, 1, Min(n, Len(s)))

----------------------------------------------------------------------------
(* scrapers/common.py: the Error-Page Guard. *)

ERROR_PAGE_PHRASES ==
    { <<"b", "r", "a", "k", " ", "p", "o", "l/", "a,", "c", "z", "e", "n", "i", "a",
        " ", "z", " ", "i", "n", "t", "e", "r", "n", "e", "t", "e", "m">>,
      <<"n", "o", " ", "i", "n", "t", "e", "r", "n", "e", "t", " ",
        "c", "o", "n", "n", "e", "c", "t", "i", "o", "n">>,
      <<"b", "l/", "a,", "d">>,
      <<"e", "r", "r", "o", "r">>,
      <<"s", "t", "r", "o", "n", "a", " ", "t", "y", "m", "c", "z", "a", "s", "o", "w", "o",
        " ", "n", "i", "e", "d", "o", "s", "t", "e,", "p", "n", "a">>,
      <<"m", "a", "i", "n", "t", "e", "n", "a", "n", "c", "e">>,
      <<"p", "r", "z", "e", "r", "w", "a", " ",
        "t", "e", "c", "h", "n", "i", "c", "z", "n", "a">> }

is_likely_error_page(title, description) ==
    LET parts == SelectSeq(<<OrEmpty(title), OrEmpty(description)>>, LAMBDA p : p # <<>>)
        text == Strip(JoinSpace(parts))
    IN  /\ text # <<>>
        /\ \E phrase \in ERROR_PAGE_PHRASES : Contains(Lower(text), phrase)

----------------------------------------------------------------------------
(* schema.py: preparing a row for the store. *)

\* A date value of a row: None, a string <<"str", text>>, or a datetime
\* object <<"datetime", iso>> whose isoformat() is the text iso.
IsStr(val) == val # None /\ val[1] = "str"
IsDatetime(val) == val # None /\ val[1] = "datetime"

for_supabase(row) ==
    IF "auction_date" \notin DOMAIN row THEN row
    ELSE LET val == row.auction_date
         IN  IF val = None \/ (IsStr(val) /\ Strip(val[2]) = <<>>)
                 THEN [row EXCEPT !.auction_date = None]
             ELSE IF IsDatetime(val)
                 THEN [row EXCEPT !.auction_date = <<"str", val[2]>>]
             ELSE row

----------------------------------------------------------------------------
(* supabase_client.py.  The store is an environment env:                    *)
(*   creds        whether supabase.url and service_role_key are configured  *)
(*   missing      the optional columns the listings table lacks, in the     *)
(*                order in which the store reports them                     *)
(*   upsert_fail  whether an upsert statement fails for another reason      *)
(*   insert_fail  whether an insert into scrape_runs fails                  *)
(*   dup_fails    whether the store rejects a statement that carries one    *)
(*                conflict key twice (PostgreSQL does), or takes the last   *)
(* A store operation is recorded as [op, rows, rec, ok].                    *)

OptionalColumns == {"region", "last_seen_at"}

\* str(e) of an exception: <<what the code looks for in it, the rest of the text>>.
MSG_CREDENTIALS == <<"ValueError", "supabase.url and supabase.service_role_key required">>
MSG_UPSERT == <<"APIError", "upsert failed">>
MSG_PGRST204(col) == <<"PGRST204", col>>
MSG_CARDINALITY == <<"21000", "ON CONFLICT DO UPDATE command cannot affect row a second time">>

StoreOp(op, rows, rec, ok) == [op |-> op, rows |-> rows, rec |-> rec, ok |-> ok]

\* get_client(): raises ValueError when a credential is missing.
get_client(env) ==
    IF env.creds THEN [raised |-> FALSE, msg |-> None]
    ELSE [raised |-> TRUE, msg |-> Some(MSG_CREDENTIALS)]

WithoutKey(row, key) == [k \in (DOMAIN row) \ {key} |-> row[k]]

_rows_without_region(rows) == [i \in 1..Len(rows) |-> WithoutKey(rows[i], "region")]

_rows_without_last_seen_at(rows) ==
    [i \in 1..Len(rows) |-> WithoutKey(rows[i], "last_seen_at")]

\* Whether two rows of one statement carry the same conflict key.
HasDuplicateKeys(batch) ==
    \E i, j \in 1..Len(batch) : i < j /\ batch[i].source_url = batch[j].source_url

\* client.table("listings").upsert(batch, on_conflict="source_url").execute():
\* the message of the error it raises, or None when the statement is written.
UpsertStatement(batch, env) ==
    LET lacking == SelectSeq(env.missing,
                       LAMBDA c : \E i \in 1..Len(batch) : c \in DOMAIN batch[i])
    IN  IF env.upsert_fail THEN Some(MSG_UPSERT)
        ELSE IF lacking # <<>> THEN Some(MSG_PGRST204(lacking[1]))
        ELSE IF env.dup_fails /\ HasDuplicateKeys(batch) THEN Some(MSG_CARDINALITY)
        ELSE None

\* The mutant of IsMissingColumn that takes every failure for a lacking column.
IsMissingColumn_any(msg, col) == TRUE

\* "PGRST204" in err_msg and col in err_msg.lower()
IsMissingColumn(msg, col) == msg[1] = "PGRST204" /\ msg[2] = col

\* upsert_listings(client, rows): [raised, msg, count, ops]
upsert_listings(rows, env) ==
    IF rows = <<>> THEN [raised |-> FALSE, msg |-> None, count |-> 0, ops |-> <<>>]
    ELSE
    LET first == UpsertStatement(rows, env)
        op1 == StoreOp("upsert", rows, None, first = None)
        Retry(stripped) ==
            LET second == UpsertStatement(stripped, env)
                op2 == StoreOp("upsert", stripped, None, second = None)
            IN  IF second = None
                    THEN [raised |-> FALSE, msg |-> None, count |-> Len(rows),
                          ops |-> <<op1, op2>>]
                ELSE [raised |-> TRUE, msg |-> second, count |-> 0, ops |-> <<op1, op2>>]
    IN  IF first = None
            THEN [raised |-> FALSE, msg |-> None, count |-> Len(rows), ops |-> <<op1>>]
        ELSE IF IsMissingColumn(first[1], "region")
            THEN Retry(_rows_without_region(rows))
        ELSE IF IsMissingColumn(first[1], "last_seen_at")
            THEN Retry(_rows_without_last_seen_at(rows))
        ELSE [raised |-> TRUE, msg |-> first, count |-> 0, ops |-> <<op1>>]

\* log_scrape_run(...): one insert into scrape_runs; a failure is logged, not raised.
log_scrape_run(source, found, upserted, status, error_message, env) ==
    << StoreOp("insert", <<>>,
               Some([source |-> source, listings_found |-> found,
                     listings_upserted |-> upserted, status |-> status,
                     error_message |-> error_message]),
               ~env.insert_fail) >>

----------------------------------------------------------------------------
(* run.py: the Run Coordinator. *)

\* dict.get(key)
Get(row, key) == IF key \in DOMAIN row THEN row[key] ELSE None

\* The mutant of rows_clean that keeps every crawled row.
rows_clean_unfiltered(rows) == rows

\* rows_clean, run.py lines 55-58
rows_clean(rows) ==
    SelectSeq(rows,
        LAMBDA r : ~is_likely_error_page(Get(r, "title"), Get(r, "description")))

RunResult(found, upserted, status, err, ops, batch) ==
    [found |-> found, upserted |-> upserted, status |-> status,
     error_message |-> err, ops |-> ops, batch |-> batch]

\* The mutant of RunScraperExcept that writes no error run record.
RunScraperExcept_unlogged(name, found, upserted, msg, dry_run, env, before, batch) ==
    RunResult(found, upserted, "error", Some(msg), before, batch)

\* The mutant of RunScraperExcept that forgets `if not dry_run`.
RunScraperExcept_logs_dry_run(name, found, upserted, msg, dry_run, env, before, batch) ==
    LET c == get_client(env)
        after ==
            IF c.raised THEN <<StoreOp("get_client", <<>>, None, FALSE)>>
            ELSE <<StoreOp("get_client", <<>>, None, TRUE)>>
                 \o log_scrape_run(name, found, upserted, "error", Some(msg), env)
    IN  RunResult(found, upserted, "error", Some(msg), before \o after, batch)

\* The mutant of RunScraperExcept whose run record counts no listing found.
RunScraperExcept_logs_none_found(name, found, upserted, msg, dry_run, env, before, batch) ==
    LET c == get_client(env)
        after ==
            IF dry_run THEN <<>>
            ELSE IF c.raised THEN <<StoreOp("get_client", <<>>, None, FALSE)>>
            ELSE <<StoreOp("get_client", <<>>, None, TRUE)>>
                 \o log_scrape_run(name, 0, upserted, "error", Some(msg), env)
    IN  RunResult(found, upserted, "error", Some(msg), before \o after, batch)

\* The except branch of run_scraper (lines 73-87) after the store operations
\* `before`: msg is str(e); batch is what upsert_listings was called with.
RunScraperExcept(name, found, upserted, msg, dry_run, env, before, batch) ==
    LET c == get_client(env)
        after ==
            IF dry_run THEN <<>>
            ELSE IF c.raised THEN <<StoreOp("get_client", <<>>, None, FALSE)>>
            ELSE <<StoreOp("get_client", <<>>, None, TRUE)>>
                 \o log_scrape_run(name, found, upserted, "error", Some(msg), env)
    IN  RunResult(found, upserted, "error", Some(msg), before \o after, batch)

\* The mutant of RunScraperEmpty that returns without logging the run.
RunScraperEmpty_unlogged(name, env) ==
    RunResult(0, 0, "success", None, <<StoreOp("get_client", <<>>, None, TRUE)>>, None)

\* run_scraper lines 48-52, with a store client: a crawl that found nothing
RunScraperEmpty(name, env) ==
    RunResult(0, 0, "success", None,
        <<StoreOp("get_client", <<>>, None, TRUE)>>
            \o log_scrape_run(name, 0, 0, "success", None, env),
        None)

\* run_scraper lines 39-87: what follows the call of scrape_fn, where scraped
\* is what scrape_fn(cfg) did: [raised, msg, rows].  The result carries,
\* beside the returned tuple, the store operations performed (ops) and the
\* argument of the upsert_listings call (batch, None when it was not called).
run_scraper_store(name, scraped, dry_run, env) ==
    IF scraped.raised THEN
        RunScraperExcept(name, 0, 0, scraped.msg[1], dry_run, env, <<>>, None)
    ELSE
    LET rows == scraped.rows
        found == Len(rows)
        c == get_client(env)
        cop == <<StoreOp("get_client", <<>>, None, ~c.raised)>>
    IN  IF dry_run THEN RunResult(found, 0, "success", None, <<>>, None)
        ELSE IF rows = <<>> THEN
            IF c.raised
                THEN RunScraperExcept(name, found, 0, c.msg[1], dry_run, env, cop, None)
            ELSE RunScraperEmpty(name, env)
        ELSE
        LET clean == rows_clean(rows)
            prepared == [i \in 1..Len(clean) |-> for_supabase(clean[i])]
            u == upsert_listings(prepared, env)
        IN  IF c.raised
                THEN RunScraperExcept(name, found, 0, c.msg[1], dry_run, env, cop, None)
            ELSE IF u.raised
                THEN RunScraperExcept(name, found, 0, u.msg[1], dry_run, env,
                         cop \o u.ops, Some(prepared))
            ELSE RunResult(found, u.count, "success", None,
                     cop \o u.ops
                         \o log_scrape_run(name, found, u.count, "success", None, env),
                     Some(prepared))

\* The requests a crawl sends to its source before it returns or raises: a
\* list page, and a detail page for every row it returns.
CrawlRequests(scraped) == 1 + Len(scraped.rows)

\* run_scraper(name, scrape_fn, cfg, dry_run): line 38 calls scrape_fn(cfg)
\* first, whatever the arguments; requests counts the requests sent to the
\* source by the time the call returns.
run_scraper(name, scraped, dry_run, env) ==
    LET r == run_scraper_store(name, scraped, dry_run, env)
    IN  [found |-> r.found, upserted |-> r.upserted, status |-> r.status,
         error_message |-> r.error_message, ops |-> r.ops, batch |-> r.batch,
         requests |-> CrawlRequests(scraped)]

----------------------------------------------------------------------------
(* The inputs of the run_scraper model. *)

Text_Dom == <<"D", "o", "m">>
Text_Error502 == <<"E", "r", "r", "o", "r", " ", "5", "0", "2">>
Text_BLAD == <<"B", "L/", "A,", "D">>
Text_NoInternet == <<"N", "o", " ", "i", "n", "t", "e", "r", "n", "e", "t">>
Text_Rooms == <<"3", " ", "p", "o", "k", "o", "j", "e">>
Text_Connection == <<"c", "o", "n", "n", "e", "c", "t", "i", "o", "n">>
Text_Przerwa ==
    <<" ", "P", "r", "z", "e", "r", "w", "a", " ",
      "t", "e", "c", "h", "n", "i", "c", "z", "n", "a">>
Text_Date == <<"2", "0", "2", "6", "-", "0", "2", "-", "2", "4">>

Row(title, description, url, date, region) ==
    [title |-> title, description |-> description, source_url |-> url,
     auction_date |-> date, region |-> region]

\* Rows a scrape function may return: two listings, and four rows the guard
\* flags (by an upper-case title, across the title/description join, in the
\* description alone, by a Polish phrase).
SampleRows ==
    { Row(Some(Text_Dom), Some(Text_Rooms), "u1", <<"str", Text_Date>>, Some("mazowieckie")),
      Row(None, None, "u2", <<"str", <<" ", " ">> >>, None),
      Row(Some(Text_Error502), None, "u3", None, None),
      Row(Some(Text_NoInternet), Some(Text_Connection), "u4", None, None),
      Row(Some(Text_Dom), Some(Text_Przerwa), "u5", <<"datetime", Text_Date>>, None),
      Row(Some(Text_BLAD), Some(<<>>), "u6", None, None) }

RECURSIVE SeqsUpTo(_, _)
SeqsUpTo(S, n) ==
    IF n = 0 THEN {<<>>}
    ELSE LET shorter == SeqsUpTo(S, n - 1)
         IN  shorter \cup {Append(q, x) : q \in {t \in shorter : Len(t) = n - 1}, x \in S}

MSG_CRAWL == <<"RuntimeError", "crawl failed">>

Scraped(rows) == [raised |-> FALSE, msg |-> None, rows |-> rows]
ScrapeRaised == [raised |-> TRUE, msg |-> Some(MSG_CRAWL), rows |-> <<>>]

Envs ==
    [creds : BOOLEAN,
     missing : {<<>>, <<"region">>, <<"last_seen_at">>,
                <<"region", "last_seen_at">>, <<"last_seen_at", "region">>},
     upsert_fail : BOOLEAN,
     insert_fail : BOOLEAN,
     dup_fails : BOOLEAN]

EnvOk ==
    [creds |-> TRUE, missing |-> <<>>, upsert_fail |-> FALSE, insert_fail |-> FALSE,
     dup_fails |-> FALSE]

SourceNames == {"komornik", "e_licytacje", "amw"}

RunOff == [phase |-> "off"]

RunInputs ==
    [phase : {"call"},
     name : {"komornik"},
     scraped : {ScrapeRaised} \cup {Scraped(rows) : rows \in SeqsUpTo(SampleRows, MaxRows)},
     dry_run : BOOLEAN,
     env : Envs]

\* One call of run_scraper on the inputs drawn by InitRun.
RunScraperCall ==
    /\ run.phase = "call"
    /\ run' = [phase |-> "done", name |-> run.name, scraped |-> run.scraped,
               dry_run |-> run.dry_run, env |-> run.env,
               out |-> run_scraper(run.name, run.scraped, run.dry_run, run.env)]
    /\ UNCHANGED <<run_state, run_lock, req, worker, now, config, crawl, hook, site, store, fetch, parse>>

----------------------------------------------------------------------------
(* webhook_server.py: the on-demand run and its status query.               *)
(* Requests 1..NumTriggers are POST /api/run, the next NumQueries are       *)
(* GET /api/run/status; the thread api_run starts for trigger r is worker r.*)

ON_DEMAND_MAX_LISTINGS == 20

Triggers == 1..NumTriggers
Queries == (NumTriggers + 1)..(NumTriggers + NumQueries)
Requests == Triggers \cup Queries
\* The identity under which worker w holds the lock.
Tid(w) == NumTriggers + NumQueries + w

SECRET == "s3cret"
Headers == {None, Some(SECRET), Some("wrong")}

\* A configuration: the run secret, scraping.on_demand_max_listings (absent,
\* or the text the file holds, <<"int", n>> when int() accepts it and
\* <<"str", text>> when it raises ValueError) and scraping.sources.
Config(secret, listings, sources) ==
    [secret |-> secret, on_demand_max_listings |-> listings, sources |-> sources]

ConfigOff == Config(None, None, None)

Configs ==
    { ConfigOff,
      Config(Some(SECRET), <<"int", 1>>, Some({"komornik", "e_licytacje"})),
      Config(None, <<"str", "abc">>, None) }

\* What the runs of the server find: every crawl returns `rows` rows (as far
\* as the crawl's cap allows), the crawl of source `failing` raises, and the
\* store behaves as env.
Sites ==
    [rows : 0..MaxFound, failing : {"none", "e_licytacje"}, env : {EnvOk}]

SiteOff == [rows |-> 0, failing |-> "none", env |-> EnvOk]

RunStateIdle ==
    [status |-> "idle", started_at |-> None, finished_at |-> None,
     results |-> None, error |-> None]

ReqNew == [pc |-> "auth", resp |-> 0, snap |-> None]
WorkerOff == [pc |-> "off", i |-> 0, results |-> <<>>, remaining |-> 0]

\* _check_run_secret(): whether a request carrying `provided` is let through.
check_run_secret(provided) ==
    \/ config.secret = None
    \/ provided = config.secret

Respond(r, code) == req' = [req EXCEPT ![r].pc = "done", ![r].resp = code]
Goto(r, pc) == req' = [req EXCEPT ![r].pc = pc]
WorkerGoto(w, pc) == worker' = [worker EXCEPT ![w].pc = pc]

\* with _run_lock: entering, by thread t
Acquire(t) == run_lock = 0 /\ run_lock' = t
\* leaving the with block
Release(t) == run_lock' = IF run_lock = t THEN 0 ELSE run_lock

\* api_run lines 171-174: 401 when the secret is wrong
ApiRunAuth(r) ==
    /\ req[r].pc = "auth"
    /\ \E provided \in Headers :
          IF ~check_run_secret(provided) THEN Respond(r, 401)
          ELSE Goto(r, "lock")
    /\ UNCHANGED <<run_state, run_lock, worker, now, config, run, crawl, hook, site, store, fetch, parse>>

\* api_run line 175
ApiRunLock(r) ==
    /\ req[r].pc = "lock"
    /\ Acquire(r)
    /\ Goto(r, "check")
    /\ UNCHANGED <<run_state, worker, now, config, run, crawl, hook, site, store, fetch, parse>>

\* The mutant of ApiRunCheck that accepts a trigger whatever the status.
ApiRunCheck_always(r) ==
    /\ req[r].pc = "check"
    /\ Goto(r, "w_status")
    /\ UNCHANGED <<run_state, run_lock, worker, now, config, run, crawl, hook, site, store, fetch, parse>>

\* api_run lines 176-177: 409 while a run is in progress
ApiRunCheck(r) ==
    /\ req[r].pc = "check"
    /\ IF run_state.status = "running"
           THEN Respond(r, 409) /\ Release(r)
       ELSE Goto(r, "w_status") /\ UNCHANGED run_lock
    /\ UNCHANGED <<run_state, worker, now, config, run, crawl, hook, site, store, fetch, parse>>

\* api_run lines 178-182, one assignment a step; the last leaves the lock
ApiRunWrite(r) ==
    /\ \/ /\ req[r].pc = "w_status"
          /\ run_state' = [run_state EXCEPT !.status = "running"]
          /\ Goto(r, "w_started")
          /\ UNCHANGED <<now, run_lock, parse>>
       \/ /\ req[r].pc = "w_started"
          /\ run_state' = [run_state EXCEPT !.started_at = Some(now)]
          /\ now' = now + 1
          /\ Goto(r, "w_finished")
          /\ UNCHANGED run_lock
       \/ /\ req[r].pc = "w_finished"
          /\ run_state' = [run_state EXCEPT !.finished_at = None]
          /\ Goto(r, "w_results")
          /\ UNCHANGED <<now, run_lock, parse>>
       \/ /\ req[r].pc = "w_results"
          /\ run_state' = [run_state EXCEPT !.results = None]
          /\ Goto(r, "w_error")
          /\ UNCHANGED <<now, run_lock, parse>>
       \/ /\ req[r].pc = "w_error"
          /\ run_state' = [run_state EXCEPT !.error = None]
          /\ Goto(r, "spawn")
          /\ Release(r)
          /\ UNCHANGED now
    /\ UNCHANGED <<worker, config, run, crawl, hook, site, store, fetch, parse>>

\* api_run lines 183-192: the thread starts and the answer is 202, or
\* Thread.start() raises (no thread can be created) and the answer is 500.
ApiRunSpawn(r) ==
    /\ req[r].pc = "spawn"
    /\ \/ /\ worker' = [worker EXCEPT ![r] = [WorkerOff EXCEPT !.pc = "start"]]
          /\ Respond(r, 202)
       \/ /\ Respond(r, 500)
          /\ UNCHANGED worker
    /\ UNCHANGED <<run_state, run_lock, now, config, run, crawl, hook, site, store, fetch, parse>>

\* _run_scrapers_background lines 120-126: the scrapers to run, in order
Scrapers(cfg) ==
    SelectSeq(<<"komornik", "e_licytacje", "amw">>,
        LAMBDA n : cfg.sources = None \/ cfg.sources[1] = {} \/ n \in cfg.sources[1])

\* _run_scrapers_background line 114; int() raises on a text that is no number
MaxListingsRaises(cfg) ==
    cfg.on_demand_max_listings # None /\ cfg.on_demand_max_listings[1] # "int"

MaxListings(cfg) ==
    IF cfg.on_demand_max_listings # None THEN cfg.on_demand_max_listings[2]
    ELSE ON_DEMAND_MAX_LISTINGS

\* How many of the `available` rows a crawl of `name` returns under
\* scraping.max_listings: scrape_komornik and scrape_amw stop at the cap,
\* scrape_elicytacje does not read it.
CrawlCount(name, available, max_listings) ==
    IF name = "e_licytacje" THEN available
    ELSE Min(available, max_listings)

ListingRow == Row(Some(Text_Dom), Some(Text_Rooms), "u1", None, None)

\* scrape_fn(cfg_for_scraper) on the site
SiteScrape(name, max_listings) ==
    IF site.failing = name THEN ScrapeRaised
    ELSE Scraped([i \in 1..CrawlCount(name, site.rows, max_listings) |-> ListingRow])

SourceResult(name, found, upserted, status, err) ==
    [source |-> name, listings_found |-> found, listings_upserted |-> upserted,
     status |-> status, error_message |-> err]

MSG_CAP == <<"skipped", "On-demand cap reached">>

\* _run_scrapers_background lines 108-128: reading the configuration; the
\* except branch runs when int(on_demand_listings) raises
WorkerStart(w) ==
    /\ worker[w].pc = "start"
    /\ IF MaxListingsRaises(config) THEN WorkerGoto(w, "exc")
       ELSE worker' = [worker EXCEPT ![w] =
                [pc |-> "loop", i |-> 1, results |-> <<>>,
                 remaining |-> MaxListings(config)]]
    /\ UNCHANGED <<run_state, run_lock, req, now, config, run, crawl, hook, site, store, fetch, parse>>

\* _run_scrapers_background lines 129-148: one iteration of the loop
WorkerScrape(w) ==
    /\ worker[w].pc = "loop"
    /\ worker[w].i <= Len(Scrapers(config))
    /\ LET me == worker[w]
           name == Scrapers(config)[me.i]
       IN  IF me.remaining <= 0
               THEN worker' = [worker EXCEPT
                        ![w].results =
                            Append(@, SourceResult(name, 0, 0, "skipped", Some(MSG_CAP))),
                        ![w].i = @ + 1]
           ELSE LET out == run_scraper(name, SiteScrape(name, me.remaining),
                                       FALSE, site.env)
                IN  worker' = [worker EXCEPT
                           ![w].results =
                               Append(@, SourceResult(name, out.found, out.upserted,
                                                      out.status, out.error_message)),
                           ![w].remaining = Max(0, @ - out.found),
                           ![w].i = @ + 1]
    /\ UNCHANGED <<run_state, run_lock, req, now, config, run, crawl, hook, site, store, fetch, parse>>

\* The mutant of CompletedStatus that reports the run as the sources are.
CompletedStatus_success == "success"

\* _run_scrapers_background line 150
CompletedStatus == "completed"

\* _run_scrapers_background lines 149 and 156: with _run_lock
WorkerLock(w) ==
    /\ \/ /\ worker[w].pc = "loop"
          /\ worker[w].i > Len(Scrapers(config))
          /\ WorkerGoto(w, "f_status")
       \/ /\ worker[w].pc = "exc"
          /\ WorkerGoto(w, "e_status")
    /\ Acquire(Tid(w))
    /\ UNCHANGED <<run_state, req, now, config, run, crawl, hook, site, store, fetch, parse>>

\* _run_scrapers_background lines 150-153, one assignment a step
WorkerWriteCompleted(w) ==
    /\ \/ /\ worker[w].pc = "f_status"
          /\ run_state' = [run_state EXCEPT !.status = CompletedStatus]
          /\ WorkerGoto(w, "f_finished")
          /\ UNCHANGED <<now, run_lock, parse>>
       \/ /\ worker[w].pc = "f_finished"
          /\ run_state' = [run_state EXCEPT !.finished_at = Some(now)]
          /\ now' = now + 1
          /\ WorkerGoto(w, "f_results")
          /\ UNCHANGED run_lock
       \/ /\ worker[w].pc = "f_results"
          /\ run_state' = [run_state EXCEPT !.results = Some(worker[w].results)]
          /\ WorkerGoto(w, "f_error")
          /\ UNCHANGED <<now, run_lock, parse>>
       \/ /\ worker[w].pc = "f_error"
          /\ run_state' = [run_state EXCEPT !.error = None]
          /\ WorkerGoto(w, "exit")
          /\ Release(Tid(w))
          /\ UNCHANGED now
    /\ UNCHANGED <<req, config, run, crawl, hook, site, store, fetch, parse>>

MSG_CONFIG == <<"ValueError", "invalid literal for int() with base 10">>

\* _run_scrapers_background lines 157-160, one assignment a step
WorkerWriteError(w) ==
    /\ \/ /\ worker[w].pc = "e_status"
          /\ run_state' = [run_state EXCEPT !.status = "error"]
          /\ WorkerGoto(w, "e_finished")
          /\ UNCHANGED <<now, run_lock, parse>>
       \/ /\ worker[w].pc = "e_finished"
          /\ run_state' = [run_state EXCEPT !.finished_at = Some(now)]
          /\ now' = now + 1
          /\ WorkerGoto(w, "e_results")
          /\ UNCHANGED run_lock
       \/ /\ worker[w].pc = "e_results"
          /\ run_state' = [run_state EXCEPT !.results =
                              IF @ = None \/ @ = Some(<<>>) THEN Some(<<>>) ELSE @]
          /\ WorkerGoto(w, "e_error")
          /\ UNCHANGED <<now, run_lock, parse>>
       \/ /\ worker[w].pc = "e_error"
          /\ run_state' = [run_state EXCEPT !.error = Some(MSG_CONFIG)]
          /\ WorkerGoto(w, "exit")
          /\ Release(Tid(w))
          /\ UNCHANGED now
    /\ UNCHANGED <<req, config, run, crawl, hook, site, store, fetch, parse>>

\* api_run_status lines 202-205
ApiRunStatusAuth(q) ==
    /\ req[q].pc = "auth"
    /\ \E provided \in Headers :
          IF ~check_run_secret(provided) THEN Respond(q, 401)
          ELSE Goto(q, "lock")
    /\ UNCHANGED <<run_state, run_lock, worker, now, config, run, crawl, hook, site, store, fetch, parse>>

\* The mutant of ApiRunStatusLock that reads the record without the lock.
ApiRunStatusLock_unlocked(q) ==
    /\ req[q].pc = "lock"
    /\ Goto(q, "copy")
    /\ UNCHANGED <<run_state, run_lock, worker, now, config, run, crawl, hook, site, store, fetch, parse>>

\* api_run_status line 206
ApiRunStatusLock(q) ==
    /\ req[q].pc = "lock"
    /\ Acquire(q)
    /\ Goto(q, "copy")
    /\ UNCHANGED <<run_state, worker, now, config, run, crawl, hook, site, store, fetch, parse>>

\* api_run_status lines 207-208: the snapshot, answered with 200
ApiRunStatusCopy(q) ==
    /\ req[q].pc = "copy"
    /\ req' = [req EXCEPT ![q] = [pc |-> "done", resp |-> 200, snap |-> Some(run_state)]]
    /\ Release(q)
    /\ UNCHANGED <<run_state, worker, now, config, run, crawl, hook, site, store, fetch, parse>>

CrawlOff == [phase |-> "off"]
HookOff == [phase |-> "off"]
StoreOff == [phase |-> "off"]
FetchOff == [pc |-> "off"]
ParseOff == [phase |-> "off"]

Init ==
    /\ run_state = RunStateIdle
    /\ run_lock = 0
    /\ req = [r \in Requests |-> ReqNew]
    /\ worker = [w \in Triggers |-> WorkerOff]
    /\ now = 1
    /\ config \in Configs
    /\ site \in Sites
    /\ run = RunOff
    /\ crawl = CrawlOff
    /\ hook = HookOff
    /\ store = StoreOff
    /\ fetch = FetchOff /\ parse = ParseOff

Next ==
    \/ \E r \in Triggers :
          \/ ApiRunAuth(r)
          \/ ApiRunLock(r)
          \/ ApiRunCheck(r)
          \/ ApiRunWrite(r)
          \/ ApiRunSpawn(r)
    \/ \E w \in Triggers :
          \/ WorkerStart(w)
          \/ WorkerScrape(w)
          \/ WorkerLock(w)
          \/ WorkerWriteCompleted(w)
          \/ WorkerWriteError(w)
    \/ \E q \in Queries :
          \/ ApiRunStatusAuth(q)
          \/ ApiRunStatusLock(q)
          \/ ApiRunStatusCopy(q)

Spec == Init /\ [][Next]_vars

\* The server as started and idle, for the models of single operations.
ServerOff ==
    /\ run_state = RunStateIdle
    /\ run_lock = 0
    /\ req = [r \in Requests |-> ReqNew]
    /\ worker = [w \in Triggers |-> WorkerOff]
    /\ now = 1
    /\ config = ConfigOff
    /\ site = SiteOff

InitRun ==
    /\ ServerOff /\ run \in RunInputs /\ crawl = CrawlOff /\ hook = HookOff
    /\ store = StoreOff /\ fetch = FetchOff /\ parse = ParseOff

SpecRun == InitRun /\ [][RunScraperCall]_vars

----------------------------------------------------------------------------
(* scrapers/*.py: the crawls.  A document is what a scraper extracts from   *)
(* one link of a list page and the detail page behind it (for amw: from one *)
(* h2 card): whether the link is a listing link of the source (candidate),  *)
(* the text of the title element (empty when the element is absent), the    *)
(* text of the description element (None when absent), the region the list  *)
(* page shows, the auction date and the price the page's texts parse to     *)
(* (None when absent or unparseable), and whether the fetch of the detail   *)
(* page succeeds.  Dates and the crawl's today are day numbers.  The site    *)
(* serves its documents per_page to a list page; a page past the last one   *)
(* lists nothing; the fetch of list page fail_page fails (0: none does).    *)
(* A crawl yields its rows and the log of its steps in their order: the     *)
(* fetches <<"list", page>> and <<"detail", url>>, and <<"row", source_url>> *)
(* where it appends a row to its results.                                   *)

TITLE_KOMORNIK ==
    <<"L", "i", "c", "y", "t", "a", "c", "j", "a", " ",
      "k", "o", "m", "o", "r", "n", "i", "c", "z", "a">>
TITLE_ELICYTACJE ==
    <<"L", "i", "c", "y", "t", "a", "c", "j", "a", " ", "s", "a,", "d", "o", "w", "a">>
TITLE_OLX == <<"O", "f", "e", "r", "t", "a", " ", "O", "L", "X">>
TITLE_GRATKA == <<"O", "f", "e", "r", "t", "a", " ", "G", "r", "a", "t", "k", "a">>
TITLE_OTODOM == <<"O", "f", "e", "r", "t", "a", " ", "O", "t", "o", "d", "o", "m">>
AMW_TITLE_PREFIX ==
    <<"N", "i", "e", "r", "u", "c", "h", "o", "m", "o", "s'", "c'", " ",
      "A", "M", "W", " ", "--", " ">>
AMW_DESCRIPTION_PREFIX ==
    <<"P", "o", "w", "i", "e", "r", "z", "c", "h", "n", "i", "a", " ", "/", " ",
      "C", "e", "n", "a", " ", "w", "y", "w", "o", "l/", "a", "w", "c", "z", "a", " ",
      "w", " ", "o", "f", "e", "r", "c", "i", "e", " ", "A", "M", "W", ".", " ">>
Text_Kategoria == <<"K", "a", "t", "e", "g", "o", "r", "i", "a">>
Text_Wojewodztwo == <<"W", "o", "j", "e", "w", "o'", "d", "z", "t", "w", "o">>
Text_Lista == <<"L", "i", "s", "t", "a">>

\* schema.normalized_listing, for the fields the model follows
normalized_listing(title, description, source, source_url, auction_date, region) ==
    [title |-> Some(title),
     description |-> IF description = None \/ description = Some(<<>>)
                         THEN None ELSE description,
     source |-> source,
     source_url |-> source_url,
     auction_date |-> auction_date,
     region |-> region]

\* el.get_text(strip=True)[:5000] if el else None
DescriptionOf(doc) ==
    IF doc.description = None THEN None ELSE Some(Prefix(doc.description[1], 5000))

\* raw["title"] or default
TitleOr(raw_title, default) == IF raw_title # <<>> THEN raw_title ELSE default

\* komornik._parse_detail_page
komornik_parse_detail_page(doc) ==
    LET raw_title == doc.title
        raw_description == DescriptionOf(doc)
        title == TitleOr(raw_title, TITLE_KOMORNIK)
    IN  IF is_likely_error_page(Some(raw_title), raw_description) THEN None
        ELSE Some(normalized_listing(title, raw_description, "komornik", doc.url,
                                     doc.date, None))

\* elicytacje._parse_detail
elicytacje_parse_detail(doc) ==
    LET raw_title == doc.title
        raw_description == DescriptionOf(doc)
        title == TitleOr(raw_title, TITLE_ELICYTACJE)
    IN  IF is_likely_error_page(Some(raw_title), raw_description) THEN None
        ELSE Some(normalized_listing(title, raw_description, "e_licytacje", doc.url,
                                     doc.date, None))

\* olx._parse_detail
olx_parse_detail(doc) ==
    Some(normalized_listing(TitleOr(doc.title, TITLE_OLX), DescriptionOf(doc),
                            "olx", doc.url, None, None))

\* gratka._parse_detail
gratka_parse_detail(doc) ==
    Some(normalized_listing(TitleOr(doc.title, TITLE_GRATKA), DescriptionOf(doc),
                            "gratka", doc.url, None, None))

\* otodom: the row built from one listing page (_listing_from_next_data, or
\* the HTML fallback of _scrape_otodom_async)
otodom_listing(doc) ==
    Some(normalized_listing(TitleOr(doc.title, TITLE_OTODOM), DescriptionOf(doc),
                            "otodom", doc.url, None, None))

\* str.startswith
StartsWith(s, p) == Len(s) >= Len(p) /\ SubSeq(s, 1, Len(p)) = p

\* amw._parse_list_page, line 95: the text the content hash is taken of,
\* f"{title}|{price_pln or 0}|{auction_date.isoformat() if auction_date else ''}",
\* as its three parts; the text of a date is the one-element sequence of its
\* day number, the empty text is <<>>
amw_raw_id(title, price_pln, auction_date) ==
    <<title,
      IF price_pln = None \/ price_pln = Some(0) THEN 0 ELSE price_pln[1],
      IF auction_date = None THEN <<>> ELSE <<auction_date[1]>> >>

\* lines 96-97: the source_url of an AMW offer; the hash is taken to be
\* injective
amw_source_url(raw_id) == <<"amw#", raw_id>>

\* amw._parse_list_page: the items of the h2 cards of one list page
RECURSIVE amw_parse_list_page(_)
amw_parse_list_page(cards) ==
    IF cards = <<>> THEN <<>>
    ELSE
    LET card == Head(cards)
        title == Strip(card.title)
        text == OrEmpty(card.description)
        rest == amw_parse_list_page(Tail(cards))
    IN  IF title = <<>> \/ Len(title) < 3 THEN rest
        ELSE IF \/ StartsWith(title, Text_Kategoria)
                \/ Contains(title, Text_Wojewodztwo)
                \/ Contains(title, Text_Lista) THEN rest
        ELSE IF is_likely_error_page(Some(title), None) THEN rest
        ELSE << [title |-> AMW_TITLE_PREFIX \o title,
                 description |-> Some(AMW_DESCRIPTION_PREFIX \o Prefix(text, 1500)),
                 price_pln |-> card.price,
                 source_url |-> amw_source_url(amw_raw_id(title, card.price, card.date)),
                 auction_date |-> card.date,
                 region |-> card.region] >> \o rest

\* The list pages the site serves for its documents.
RECURSIVE Pages(_, _)
Pages(docs, per_page) ==
    IF docs = <<>> THEN <<>>
    ELSE <<Prefix(docs, per_page)>>
             \o Pages(SubSeq(docs, Min(per_page, Len(docs)) + 1, Len(docs)), per_page)

\* The links of list page number page of the web, and whether its fetch
\* raises httpx.HTTPError.
ListPage(web, page) == IF page <= Len(web.pages) THEN web.pages[page] ELSE <<>>
ListFails(web, page) == web.fail_page = page

\* The links of a list page that the source's selector and URL tests accept.
Candidates(links) == SelectSeq(links, LAMBDA x : x.candidate)

\* The tail of _parse_list_page of the detail sources: each URL once, in
\* page order
RECURSIVE UniqueByUrl(_, _)
UniqueByUrl(items, seen) ==
    IF items = <<>> THEN <<>>
    ELSE LET x == Head(items)
         IN  IF x.url \in seen THEN UniqueByUrl(Tail(items), seen)
             ELSE <<x>> \o UniqueByUrl(Tail(items), seen \cup {x.url})

\* _parse_list_page of elicytacje, olx and gratka
parse_list_page(links) == UniqueByUrl(Candidates(links), {})

\* komornik.py lines 50-57: with a region filter, only the table rows whose
\* column Miasto (Wojewodztwo) names the region
InRegion(links, region_filter) ==
    SelectSeq(links,
        LAMBDA x : region_filter = None
                      \/ (x.region # None /\ x.region[1] = region_filter[1]))

\* _parse_list_page(soup, base, region_filter) of komornik
komornik_parse_list_page(links, region_filter) ==
    UniqueByUrl(Candidates(InRegion(links, region_filter)), {})

\* len(results) >= int(max_listings), when max_listings is set
CapReached(results, max_listings) ==
    max_listings # None /\ Len(results) >= max_listings[1]

\* _cutoff_for_days_back(int(days_back)) if days_back is not None else None
cutoff_for_days_back(days_back, today) ==
    IF days_back = None THEN None
    ELSE IF days_back[1] <= 0 THEN None
    ELSE Some(today - days_back[1])

\* The mutant of IsOlder that also cuts a listing dated at the cutoff.
IsOlder_or_equal(ad, cutoff) == ad <= cutoff

\* ad.astimezone(timezone.utc) < cutoff
IsOlder(ad, cutoff) == ad < cutoff

\* cutoff is not None and ad_str, and the date is older than the cutoff
BeforeCutoff(row, cutoff) ==
    cutoff # None /\ row.auction_date # None /\ IsOlder(row.auction_date[1], cutoff[1])

\* What a crawl has done so far.
CrawlStart == [results |-> <<>>, log |-> <<>>, raised |-> FALSE]
Fetched(st, kind, what) == [st EXCEPT !.log = Append(@, <<kind, what>>)]
Accumulated(st, row) ==
    [st EXCEPT !.results = Append(@, row), !.log = Append(@, <<"row", row.source_url>>)]

\* scrape_komornik(cfg): cfg.max_pages is scraping.max_pages_auctions,
\* cfg.max_listings is scraping.max_listings, cfg.days_back is
\* scraping.days_back (None when unset) and cfg.komornik_region is the
\* region of lines 146-150 (None for all regions).
scrape_komornik(web, cfg) ==
    LET cutoff == cutoff_for_days_back(cfg.days_back, web.today)
        RECURSIVE Items(_, _)
        Items(items, st) ==
            IF items = <<>> THEN [st |-> st, stop_early |-> FALSE]
            ELSE
            LET item == Head(items)
                got == Fetched(st, "detail", item.url)
                row == IF item.fetch_ok THEN komornik_parse_detail_page(item) ELSE None
            IN  IF row = None THEN Items(Tail(items), got)
                ELSE
                LET r == IF item.region # None
                             THEN [row[1] EXCEPT !.region = item.region]
                         ELSE row[1]
                    added == Accumulated(got, r)
                IN  IF BeforeCutoff(r, cutoff) THEN [st |-> got, stop_early |-> TRUE]
                    ELSE IF CapReached(added.results, cfg.max_listings)
                        THEN [st |-> added, stop_early |-> TRUE]
                    ELSE Items(Tail(items), added)
        RECURSIVE Loop(_, _)
        Loop(page, st) ==
            IF page > cfg.max_pages THEN st
            ELSE
            LET got == Fetched(st, "list", page)
                items == komornik_parse_list_page(ListPage(web, page), cfg.komornik_region)
            IN  IF ListFails(web, page) \/ items = <<>> THEN got
                ELSE LET done == Items(items, got)
                     IN  IF done.stop_early THEN done.st
                         ELSE Loop(page + 1, done.st)
    IN  Loop(1, CrawlStart)

\* scrape_elicytacje(cfg): reads no max_listings
scrape_elicytacje(web, cfg) ==
    LET cutoff == cutoff_for_days_back(cfg.days_back, web.today)
        RECURSIVE Items(_, _)
        Items(items, st) ==
            IF items = <<>> THEN [st |-> st, stop_early |-> FALSE]
            ELSE
            LET item == Head(items)
                got == Fetched(st, "detail", item.url)
                row == IF item.fetch_ok THEN elicytacje_parse_detail(item) ELSE None
            IN  IF row = None THEN Items(Tail(items), got)
                ELSE IF BeforeCutoff(row[1], cutoff) THEN [st |-> got, stop_early |-> TRUE]
                ELSE Items(Tail(items), Accumulated(got, row[1]))
        RECURSIVE Loop(_, _)
        Loop(page, st) ==
            IF page > cfg.max_pages THEN st
            ELSE
            LET got == Fetched(st, "list", page)
                items == parse_list_page(ListPage(web, page))
            IN  IF ListFails(web, page) \/ items = <<>> THEN got
                ELSE LET done == Items(items, got)
                     IN  IF done.stop_early THEN done.st
                         ELSE Loop(page + 1, done.st)
    IN  Loop(1, CrawlStart)

\* The mutant of scrape_olx without the try around one detail page: the
\* failure of a detail fetch reaches the handler of the list page and ends
\* the crawl.
scrape_olx_uncaught(web, cfg) ==
    LET RECURSIVE Items(_, _)
        Items(urls, st) ==
            IF urls = <<>> THEN [st |-> st, failed |-> FALSE]
            ELSE
            LET detail == Head(urls)
                got == Fetched(st, "detail", detail.url)
            IN  IF ~detail.fetch_ok THEN [st |-> got, failed |-> TRUE]
                ELSE Items(Tail(urls), Accumulated(got, olx_parse_detail(detail)[1]))
        RECURSIVE Loop(_, _)
        Loop(page, st) ==
            IF page > cfg.max_pages THEN st
            ELSE
            LET got == Fetched(st, "list", page)
                urls == parse_list_page(ListPage(web, page))
            IN  IF ListFails(web, page) \/ urls = <<>> THEN got
                ELSE LET done == Items(urls, got)
                     IN  IF done.failed THEN done.st ELSE Loop(page + 1, done.st)
    IN  Loop(1, CrawlStart)

\* scrape_olx(cfg): cfg.max_pages is scraping.max_pages_classifieds
scrape_olx(web, cfg) ==
    LET RECURSIVE Items(_, _)
        Items(urls, st) ==
            IF urls = <<>> THEN st
            ELSE
            LET detail == Head(urls)
                got == Fetched(st, "detail", detail.url)
                row == IF detail.fetch_ok THEN olx_parse_detail(detail) ELSE None
            IN  IF row = None THEN Items(Tail(urls), got)
                ELSE Items(Tail(urls), Accumulated(got, row[1]))
        RECURSIVE Loop(_, _)
        Loop(page, st) ==
            IF page > cfg.max_pages THEN st
            ELSE
            LET got == Fetched(st, "list", page)
                urls == parse_list_page(ListPage(web, page))
            IN  IF ListFails(web, page) \/ urls = <<>> THEN got
                ELSE Loop(page + 1, Items(urls, got))
    IN  Loop(1, CrawlStart)

\* scrape_gratka(cfg)
scrape_gratka(web, cfg) ==
    LET RECURSIVE Items(_, _)
        Items(urls, st) ==
            IF urls = <<>> THEN st
            ELSE
            LET detail == Head(urls)
                got == Fetched(st, "detail", detail.url)
                row == IF detail.fetch_ok THEN gratka_parse_detail(detail) ELSE None
            IN  IF row = None THEN Items(Tail(urls), got)
                ELSE Items(Tail(urls), Accumulated(got, row[1]))
        RECURSIVE Loop(_, _)
        Loop(page, st) ==
            IF page > cfg.max_pages THEN st
            ELSE
            LET got == Fetched(st, "list", page)
                urls == parse_list_page(ListPage(web, page))
            IN  IF ListFails(web, page) \/ urls = <<>> THEN got
                ELSE Loop(page + 1, Items(urls, got))
    IN  Loop(1, CrawlStart)

\* otodom._fetch_listing_urls_playwright: the listing URLs of all list pages,
\* each once, up to the first page on which the selector finds no link; a
\* failing page.goto is not caught
otodom_fetch_listing_urls(web, max_pages) ==
    LET RECURSIVE Loop(_, _, _)
        Loop(page_num, urls, st) ==
            IF page_num > max_pages THEN [urls |-> urls, st |-> st]
            ELSE
            LET got == Fetched(st, "list", page_num)
                link_handles == ListPage(web, page_num)
                seen == {urls[i].url : i \in 1..Len(urls)}
                found == urls \o UniqueByUrl(Candidates(link_handles), seen)
            IN  IF ListFails(web, page_num)
                    THEN [urls |-> <<>>, st |-> [got EXCEPT !.raised = TRUE]]
                ELSE IF link_handles = <<>> THEN [urls |-> found, st |-> got]
                ELSE Loop(page_num + 1, found, got)
    IN  Loop(1, <<>>, CrawlStart)

\* scrape_otodom(cfg)
scrape_otodom(web, cfg) ==
    LET RECURSIVE Items(_, _)
        Items(listing_urls, st) ==
            IF listing_urls = <<>> THEN st
            ELSE
            LET listing == Head(listing_urls)
                got == Fetched(st, "detail", listing.url)
                row == IF listing.fetch_ok THEN otodom_listing(listing) ELSE None
            IN  IF row = None THEN Items(Tail(listing_urls), got)
                ELSE Items(Tail(listing_urls), Accumulated(got, row[1]))
        listed == otodom_fetch_listing_urls(web, cfg.max_pages)
    IN  IF listed.st.raised THEN listed.st ELSE Items(listed.urls, listed.st)

\* scrape_amw(cfg): the list pages are numbered from 0 in the URL; the log
\* names them, as for the other sources, from 1
scrape_amw(web, cfg) ==
    LET RECURSIVE Items(_, _, _)
        Items(items, st, seen_urls) ==
            IF items = <<>>
                THEN [st |-> st, seen_urls |-> seen_urls, return |-> FALSE]
            ELSE
            LET item == Head(items)
            IN  IF item.source_url \in seen_urls
                    THEN Items(Tail(items), st, seen_urls)
                ELSE
                LET row == normalized_listing(item.title, item.description, "amw",
                                              item.source_url, item.auction_date,
                                              item.region)
                    added == Accumulated(st, row)
                    seen == seen_urls \cup {item.source_url}
                IN  IF CapReached(added.results, cfg.max_listings)
                        THEN [st |-> added, seen_urls |-> seen, return |-> TRUE]
                    ELSE Items(Tail(items), added, seen)
        RECURSIVE Loop(_, _, _)
        Loop(page, st, seen_urls) ==
            IF page >= cfg.max_pages THEN st
            ELSE
            LET got == Fetched(st, "list", page + 1)
                items == amw_parse_list_page(ListPage(web, page + 1))
            IN  IF ListFails(web, page + 1) \/ items = <<>> THEN got
                ELSE LET done == Items(items, got, seen_urls)
                     IN  IF done.return THEN done.st
                         ELSE Loop(page + 1, done.st, done.seen_urls)
    IN  Loop(0, CrawlStart, {})

DetailSources == {"komornik", "e_licytacje", "olx", "gratka", "otodom"}
CrawlSources == DetailSources \cup {"amw"}

\* The scrape function of a source (scrapers/<source>.py).
scrape(source, web, cfg) ==
    CASE source = "komornik" -> scrape_komornik(web, cfg)
      [] source = "e_licytacje" -> scrape_elicytacje(web, cfg)
      [] source = "amw" -> scrape_amw(web, cfg)
      [] source = "olx" -> scrape_olx(web, cfg)
      [] source = "gratka" -> scrape_gratka(web, cfg)
      [] source = "otodom" -> scrape_otodom(web, cfg)

Doc(url, candidate, title, description, fetch_ok, region, date, price) ==
    [url |-> url, candidate |-> candidate, title |-> title,
     description |-> description, fetch_ok |-> fetch_ok, region |-> region,
     date |-> date, price |-> price]

\* Documents a detail source may serve: a listing dated today, a page whose
\* title is an error phrase, a page with a maintenance notice in its body, a
\* page without title and body dated at the cutoff, a page whose fetch
\* fails, a listing dated before the cutoff, and a link that is no listing
\* link.
SampleDocs ==
    { Doc("d1", TRUE, Text_Dom, Some(Text_Rooms), TRUE, Some("mazowieckie"), Some(2), None),
      Doc("d2", TRUE, Text_Error502, None, TRUE, None, None, None),
      Doc("d3", TRUE, Text_Dom, Some(Text_Przerwa), TRUE, None, None, None),
      Doc("d4", TRUE, <<>>, None, TRUE, None, Some(1), None),
      Doc("d5", TRUE, Text_Dom, None, FALSE, None, None, None),
      Doc("d6", TRUE, Text_Dom, Some(Text_Rooms), TRUE, None, Some(0), None),
      Doc("d7", FALSE, Text_Dom, None, TRUE, None, None, None) }

\* Cards an AMW list page may show: an offer without price and date, the
\* same offer in another region and with another text, with a price of 0,
\* with a price, with a date before the cutoff, an offer with another
\* title, a card whose title is an error phrase, and an offer whose card
\* links its detail page (url is the href of the link, "" when the card has
\* none).
SampleCards ==
    { Doc("", TRUE, Text_Dom, Some(Text_Rooms), TRUE, Some("mazowieckie"), None, None),
      Doc("", TRUE, Text_Dom, None, TRUE, None, None, None),
      Doc("", TRUE, Text_Dom, Some(Text_Rooms), TRUE, Some("mazowieckie"), None, Some(0)),
      Doc("", TRUE, Text_Dom, Some(Text_Rooms), TRUE, Some("mazowieckie"), None, Some(100)),
      Doc("", TRUE, Text_Dom, Some(Text_Rooms), TRUE, Some("mazowieckie"), Some(0), None),
      Doc("", TRUE, Text_Rooms, Some(Text_Rooms), TRUE, Some("mazowieckie"), None, None),
      Doc("", TRUE, Text_Error502, None, TRUE, None, None, None),
      Doc("/oferta-1", TRUE, Text_Dom, Some(Text_Rooms), TRUE, Some("mazowieckie"), None, None) }

\* max_pages_auctions / max_pages_classifieds: a configured 1, or (50) more
\* pages than any modelled site has; max_listings: unset, 1, or as many as
\* the site has documents; days_back: unset or 1
CrawlConfigs ==
    [max_pages : {1, MaxItems + 1},
     max_listings : {None, Some(1), Some(MaxItems)},
     days_back : {None, Some(1)},
     komornik_region : {None}]

CrawlInputs ==
    [phase : {"call"},
     source : DetailSources,
     docs : SeqsUpTo(SampleDocs, MaxItems),
     per_page : 1..MaxItems,
     fail_page : {0, 2},
     today : {2},
     cfg : CrawlConfigs]
    \cup
    [phase : {"call"},
     source : {"amw"},
     docs : SeqsUpTo(SampleCards, MaxItems),
     per_page : 1..MaxItems,
     fail_page : {0, 2},
     today : {2},
     cfg : CrawlConfigs]

\* The site a crawl meets.
SiteOf(c) == [pages |-> Pages(c.docs, c.per_page), fail_page |-> c.fail_page,
              today |-> c.today]

\* One crawl of one source on the inputs drawn by InitCrawl.
ScrapeCall ==
    /\ crawl.phase = "call"
    /\ LET r == scrape(crawl.source, SiteOf(crawl), crawl.cfg)
       IN  crawl' = [crawl EXCEPT !.phase = "done"] @@
                    [out |-> r.results, log |-> r.log, raised |-> r.raised]
    /\ UNCHANGED <<run_state, run_lock, req, worker, now, config, run, hook, site, store, fetch, parse>>

InitCrawl ==
    /\ ServerOff /\ run = RunOff /\ crawl \in CrawlInputs /\ hook = HookOff
    /\ store = StoreOff /\ fetch = FetchOff /\ parse = ParseOff

SpecCrawl == InitCrawl /\ [][ScrapeCall]_vars

\* The komornik crawl with and without a region filter, on sites whose
\* listings lie in two regions.
RegionDocs ==
    { Doc("d1", TRUE, Text_Dom, Some(Text_Rooms), TRUE, Some("mazowieckie"), Some(2), None),
      Doc("d8", TRUE, Text_Dom, Some(Text_Rooms), TRUE, Some("podlaskie"), Some(2), None),
      Doc("d9", TRUE, Text_Rooms, None, TRUE, Some("mazowieckie"), Some(2), None) }

RegionInputs ==
    [phase : {"call"},
     source : {"komornik"},
     docs : SeqsUpTo(RegionDocs, MaxItems),
     per_page : 1..MaxItems,
     fail_page : {0},
     today : {2},
     cfg : [max_pages : {1, MaxItems + 1},
            max_listings : {None},
            days_back : {None},
            komornik_region : {None, Some("mazowieckie")}]]

InitRegion ==
    /\ ServerOff /\ run = RunOff /\ crawl \in RegionInputs /\ hook = HookOff
    /\ store = StoreOff /\ fetch = FetchOff /\ parse = ParseOff

SpecRegion == InitRegion /\ [][ScrapeCall]_vars

----------------------------------------------------------------------------
(* apify_facebook.py: Apify dataset items to listings.  An item is a dict   *)
(* whose values are strings (Some(text)) or null (None); an entry of the    *)
(* dataset that is no dict is NotADict.                                     *)

SALES_KEYWORDS ==
    { <<"s", "p", "r", "z", "e", "d", "a", "z.">>,
      <<"s", "p", "r", "z", "e", "d", "a", "m">>,
      <<"s", "p", "r", "z", "e", "d", "a", "j", "e,">>,
      <<"c", "e", "n", "a">>,
      <<"z", "l/">>,
      <<"z", "l">>,
      <<"n", "i", "e", "r", "u", "c", "h", "o", "m", "o", "s'", "c'">>,
      <<"n", "i", "e", "r", "u", "c", "h", "o", "m", "o", "s", "c">>,
      <<"m", "i", "e", "s", "z", "k", "a", "n", "i", "e">>,
      <<"d", "o", "m">>,
      <<"d", "z", "i", "a", "l/", "k", "a">>,
      <<"d", "z", "i", "a", "l", "k", "a">>,
      <<"l", "i", "c", "y", "t", "a", "c", "j", "a">>,
      <<"w", "y", "n", "a", "j", "e", "m">>,
      <<"d", "o", " ", "w", "y", "n", "a", "j", "e,", "c", "i", "a">>,
      <<"d", "o", " ", "w", "y", "n", "a", "j", "e", "c", "i", "a">> }

TITLE_FACEBOOK == <<"P", "o", "s", "t", " ", "F", "a", "c", "e", "b", "o", "o", "k">>
ELLIPSIS == <<"...">>

MSG_TOKEN == <<"ValueError", "apify.token or APIFY_TOKEN required for Apify integration">>
MSG_FETCH == <<"HTTPStatusError", "dataset fetch failed">>

NotADict == [not_a_dict |-> TRUE]
IsDict(item) == "not_a_dict" \notin DOMAIN item

\* _text_from_item
_text_from_item(item) ==
    LET keys == <<"title", "text", "message", "content", "description">>
        vals == [i \in 1..Len(keys) |-> Get(item, keys[i])]
        kept == SelectSeq(vals, LAMBDA val : val # None /\ Strip(val[1]) # <<>>)
        parts == [i \in 1..Len(kept) |-> Strip(kept[i][1])]
    IN  JoinSpace(parts)

\* passes_sales_filter
passes_sales_filter(text) ==
    /\ text # <<>>
    /\ \E kw \in SALES_KEYWORDS : Contains(Lower(text), Lower(kw))

\* `x or y` for optional strings: an absent or empty x gives y
OrElse(x, y) == IF x # None /\ x[1] # <<>> THEN x ELSE y

\* _source_url_from_item
_source_url_from_item(item) ==
    LET url == OrElse(Get(item, "postUrl"),
                   OrElse(Get(item, "url"),
                       OrElse(Get(item, "link"), Get(item, "post_url"))))
    IN  IF url # None /\ Strip(url[1]) # <<>> THEN Some(Strip(url[1])) ELSE None

\* normalize_facebook_item: Some(row), or None for an item that is skipped
normalize_facebook_item(item) ==
    LET source_url == _source_url_from_item(item)
        text == _text_from_item(item)
        title == IF Len(text) > 500 THEN Prefix(text, 500) \o ELLIPSIS
                 ELSE IF text # <<>> THEN text ELSE TITLE_FACEBOOK
    IN  IF source_url = None THEN None
        ELSE IF ~passes_sales_filter(text) THEN None
        ELSE Some(normalized_listing(title,
                      IF text # <<>> THEN Some(Prefix(text, 5000)) ELSE None,
                      "facebook", source_url[1], None, None))

\* process_apify_dataset lines 142-149: the rows of the dataset's items; an
\* item whose normalization raises is skipped
RECURSIVE FacebookRows(_)
FacebookRows(raw_items) ==
    IF raw_items = <<>> THEN <<>>
    ELSE LET item == Head(raw_items)
             row == IF IsDict(item) THEN normalize_facebook_item(item) ELSE None
         IN  (IF row = None THEN <<>> ELSE <<for_supabase(row[1])>>)
                 \o FacebookRows(Tail(raw_items))

HookResult(raised, msg, found, upserted, ops, batch, requests) ==
    [raised |-> raised, msg |-> msg, found |-> found, upserted |-> upserted,
     ops |-> ops, batch |-> batch, requests |-> requests]

\* process_apify_dataset(dataset_id, cfg): token is apify.token, fetched is
\* what fetch_dataset_items does ([raised, items]); the result carries the
\* exception that propagates (raised, msg) or the returned pair, the store
\* operations performed, the argument of upsert_listings and the number of
\* requests sent to Apify (the one GET of fetch_dataset_items).
process_apify_dataset(token, fetched, env) ==
    IF token = <<>> THEN HookResult(TRUE, Some(MSG_TOKEN), 0, 0, <<>>, None, 0)
    ELSE IF fetched.raised THEN HookResult(TRUE, Some(MSG_FETCH), 0, 0, <<>>, None, 1)
    ELSE
    LET rows == FacebookRows(fetched.items)
        c == get_client(env)
        cop == <<StoreOp("get_client", <<>>, None, ~c.raised)>>
        u == upsert_listings(rows, env)
    IN  IF rows = <<>> THEN HookResult(FALSE, None, 0, 0, <<>>, None, 1)
        ELSE IF c.raised THEN HookResult(TRUE, c.msg, 0, 0, cop, None, 1)
        ELSE IF u.raised THEN HookResult(TRUE, u.msg, 0, 0, cop \o u.ops, Some(rows), 1)
        ELSE HookResult(FALSE, None, Len(rows), u.count,
                 cop \o u.ops
                     \o log_scrape_run("facebook", Len(rows), u.count, "success", None, env),
                 Some(rows), 1)

Text_Url1 == <<"f", "b", "/", "1">>
Text_Url2 == <<"f", "b", "/", "2">>
Text_Sprzedam ==
    <<"S", "p", "r", "z", "e", "d", "a", "m", " ",
      "m", "i", "e", "s", "z", "k", "a", "n", "i", "e">>

\* A sales post of n characters.
LongText(n) == Text_Sprzedam \o [i \in 1..(n - Len(Text_Sprzedam)) |-> "a"]

\* Items a dataset may hold: a sales post, a sales post quoting an error
\* message, a post without sales keyword, a post without URL, a post whose
\* text is spread over two fields, two posts of 500 and of 501 characters,
\* and an entry that is no dict.
SampleItems ==
    { [postUrl |-> Some(Text_Url1), text |-> Some(Text_Sprzedam)],
      [url |-> Some(Text_Url2), title |-> Some(Text_Dom), text |-> Some(Text_Error502)],
      [postUrl |-> Some(Text_Url1), message |-> Some(Text_Rooms)],
      [postUrl |-> None, text |-> Some(Text_Sprzedam)],
      [link |-> Some(Text_Url2), title |-> Some(Text_Dom), description |-> Some(Text_Przerwa)],
      [postUrl |-> Some(Text_Url1), text |-> Some(LongText(500))],
      [postUrl |-> Some(Text_Url2), text |-> Some(LongText(501))],
      NotADict }

HookEnvs ==
    [creds : BOOLEAN, missing : {<<>>, <<"region">>},
     upsert_fail : BOOLEAN, insert_fail : BOOLEAN, dup_fails : BOOLEAN]

HookInputs ==
    [phase : {"call"},
     token : {<<>>, <<"t">>},
     fetched : {[raised |-> TRUE, items |-> <<>>]}
                 \cup {[raised |-> FALSE, items |-> items] :
                          items \in SeqsUpTo(SampleItems, MaxItems)},
     env : HookEnvs]

\* One call of process_apify_dataset on the inputs drawn by InitHook.
ProcessApifyDataset ==
    /\ hook.phase = "call"
    /\ hook' = [phase |-> "done", token |-> hook.token, fetched |-> hook.fetched,
                env |-> hook.env,
                out |-> process_apify_dataset(hook.token, hook.fetched, hook.env)]
    /\ UNCHANGED <<run_state, run_lock, req, worker, now, config, run, crawl, site, store, fetch, parse>>

InitHook ==
    /\ ServerOff /\ run = RunOff /\ crawl = CrawlOff /\ hook \in HookInputs
    /\ store = StoreOff /\ fetch = FetchOff /\ parse = ParseOff

SpecApify == InitHook /\ [][ProcessApifyDataset]_vars

----------------------------------------------------------------------------
(* The listings table behind upsert_listings.  The table is a sequence of   *)
(* rows; a written upsert statement with on_conflict = "source_url" updates *)
(* the columns it carries of the row with the same source_url, and inserts  *)
(* a row when there is none; without a conflict key it inserts every row.   *)

ON_CONFLICT_none == "none"

\* on_conflict="source_url" of the three upsert statements
ON_CONFLICT == "source_url"

\* The stored row after an update with the columns of `new`.
Merge(old, new) ==
    [k \in (DOMAIN old) \cup (DOMAIN new) |-> IF k \in DOMAIN new THEN new[k] ELSE old[k]]

\* The table after one row of a statement.
WriteRow(table, row) ==
    LET hits == {i \in 1..Len(table) : table[i].source_url = row.source_url}
    IN  IF ON_CONFLICT = "source_url" /\ hits # {}
            THEN [i \in 1..Len(table) |->
                     IF i \in hits THEN Merge(table[i], row) ELSE table[i]]
        ELSE Append(table, row)

\* The table after a written statement.
RECURSIVE WriteRows(_, _)
WriteRows(table, rows) ==
    IF rows = <<>> THEN table ELSE WriteRows(WriteRow(table, Head(rows)), Tail(rows))

\* The table after the statements of one upsert_listings call: a statement
\* that failed wrote nothing.
RECURSIVE ApplyOps(_, _)
ApplyOps(table, ops) ==
    IF ops = <<>> THEN table
    ELSE ApplyOps(IF Head(ops).op = "upsert" /\ Head(ops).ok
                      THEN WriteRows(table, Head(ops).rows) ELSE table,
                  Tail(ops))

Text_Seen == <<"2", "0", "2", "6", "-", "0", "3", "-", "0", "1">>

\* Rows a caller may upsert: with both optional columns, a second version of
\* the same listing, with region only, with last_seen_at only, with neither.
StoreRows ==
    { [source_url |-> "u1", title |-> Some(Text_Dom), region |-> Some("mazowieckie"),
       last_seen_at |-> Some(Text_Seen)],
      [source_url |-> "u1", title |-> Some(Text_Rooms), region |-> None,
       last_seen_at |-> Some(Text_Date)],
      [source_url |-> "u2", title |-> Some(Text_Dom), region |-> Some("podlaskie")],
      [source_url |-> "u3", title |-> Some(Text_Dom), last_seen_at |-> Some(Text_Seen)],
      [source_url |-> "u4", title |-> Some(Text_Rooms)] }

StoreEnvs ==
    [creds : {TRUE},
     missing : {<<>>, <<"region">>, <<"last_seen_at">>,
                <<"region", "last_seen_at">>, <<"last_seen_at", "region">>},
     upsert_fail : BOOLEAN,
     insert_fail : {FALSE},
     dup_fails : BOOLEAN]

\* A stored listing the user has already handled.
StoredRow == [source_url |-> "u1", title |-> Some(Text_Rooms), status |-> "contacted"]

StoreInputs ==
    [phase : {"ready"}, env : StoreEnvs, table : {<<>>, <<StoredRow>>},
     calls : {<<>>}]

\* One upsert_listings(client, rows) call on the table; the store keeps at
\* most two calls.
UpsertListingsCall ==
    /\ store.phase = "ready"
    /\ Len(store.calls) < 2
    /\ \E rows \in SeqsUpTo(StoreRows, MaxRows) :
          LET u == upsert_listings(rows, store.env)
          IN  store' = [store EXCEPT
                  !.table = ApplyOps(store.table, u.ops),
                  !.calls = Append(store.calls,
                                [rows |-> rows, out |-> u, before |-> store.table])]
    /\ UNCHANGED <<run_state, run_lock, req, worker, now, config, run, crawl, hook, site, fetch, parse>>

InitStore ==
    /\ ServerOff /\ run = RunOff /\ crawl = CrawlOff /\ hook = HookOff
    /\ store \in StoreInputs /\ fetch = FetchOff /\ parse = ParseOff

SpecStore == InitStore /\ [][UpsertListingsCall]_vars

----------------------------------------------------------------------------
(* http_utils.py: sync_get_with_retry.  The server answers the attempts of  *)
(* one call with fetch.outcomes: "ok", a transient failure ("http_error",   *)
(* "timeout": httpx.HTTPError and httpx.TimeoutException) or "other", an    *)
(* exception the function does not catch.  fetch.log lists what the call    *)
(* did: <<"sleep", seconds>> and <<"get", outcome>>.  Delays are in whole    *)
(* seconds.  Every caller leaves max_retries at its default.                *)

MAX_RETRIES == 3
RETRY_BACKOFF_BASE == 1

RECURSIVE Pow2(_)
Pow2(n) == IF n = 0 THEN 1 ELSE 2 * Pow2(n - 1)

\* The mutant of Backoff that waits the same time before every retry.
Backoff_constant(attempt) == RETRY_BACKOFF_BASE

\* wait = RETRY_BACKOFF_BASE * (2**attempt)
Backoff(attempt) == RETRY_BACKOFF_BASE * Pow2(attempt)

Transient == {"http_error", "timeout"}
Outcomes == {"ok", "other"} \cup Transient

FetchInputs ==
    [pc : {"start"},
     outcomes : [1..MAX_RETRIES -> Outcomes],
     delay_seconds : {0, 2},
     max_retries : {MAX_RETRIES},
     attempt : {0},
     last_exc : {None},
     log : {<<>>},
     result : {None}]

\* line 69: time.sleep(delay_seconds)
GetDelay ==
    /\ fetch.pc = "start"
    /\ fetch' = [fetch EXCEPT !.pc = "loop",
                              !.log = Append(@, <<"sleep", fetch.delay_seconds>>)]
    /\ UNCHANGED <<run_state, run_lock, req, worker, now, config, run, crawl, hook, site, store, parse>>

\* lines 71-77: one attempt of the loop; a success returns, a transient
\* failure is kept in last_exc, another exception propagates
GetAttempt ==
    /\ fetch.pc = "loop"
    /\ fetch.attempt < fetch.max_retries
    /\ LET outcome == fetch.outcomes[fetch.attempt + 1]
           logged == Append(fetch.log, <<"get", outcome>>)
       IN  fetch' =
             IF outcome = "ok"
                 THEN [fetch EXCEPT !.pc = "done", !.log = logged,
                                    !.result = Some(<<"returned", "ok">>)]
             ELSE IF outcome \notin Transient
                 THEN [fetch EXCEPT !.pc = "done", !.log = logged,
                                    !.result = Some(<<"raised", outcome>>)]
             ELSE IF fetch.attempt < fetch.max_retries - 1
                 THEN [fetch EXCEPT !.pc = "backoff", !.log = logged,
                                    !.last_exc = Some(outcome)]
             ELSE [fetch EXCEPT !.pc = "loop", !.log = logged,
                                !.last_exc = Some(outcome), !.attempt = @ + 1]
    /\ UNCHANGED <<run_state, run_lock, req, worker, now, config, run, crawl, hook, site, store, parse>>

\* lines 78-81: the wait before the next attempt
GetBackoff ==
    /\ fetch.pc = "backoff"
    /\ fetch' = [fetch EXCEPT !.pc = "loop",
                              !.log = Append(@, <<"sleep", Backoff(fetch.attempt)>>),
                              !.attempt = @ + 1]
    /\ UNCHANGED <<run_state, run_lock, req, worker, now, config, run, crawl, hook, site, store, parse>>

\* line 82: raise last_exc, once the loop is exhausted
GetRaise ==
    /\ fetch.pc = "loop"
    /\ fetch.attempt >= fetch.max_retries
    /\ fetch' = [fetch EXCEPT !.pc = "done",
                              !.result = Some(<<"raised", fetch.last_exc[1]>>)]
    /\ UNCHANGED <<run_state, run_lock, req, worker, now, config, run, crawl, hook, site, store, parse>>

InitFetch ==
    /\ ServerOff /\ run = RunOff /\ crawl = CrawlOff /\ hook = HookOff
    /\ store = StoreOff /\ fetch \in FetchInputs /\ parse = ParseOff

NextFetch == GetDelay \/ GetAttempt \/ GetBackoff \/ GetRaise

SpecFetch == InitFetch /\ [][NextFetch]_vars

----------------------------------------------------------------------------
(* supabase_client.py: archive_listings_not_seen_in_last_n_runs, with the   *)
(* runs that write the two tables it reads.  store.listings is the listings *)
(* table by source_url, store.scrape_runs the scrape_runs table in insert   *)
(* order, store.job the runs in progress (cron, server thread or webhook,   *)
(* each its own thread of control) and now the clock that datetime.now and  *)
(* the database read.  A run is a sequence of steps, one per clock reading  *)
(* or table write, so that other runs and the clock may move in between.    *)
(* A row of a run is its source_url.  The field rows of a scrape_runs       *)
(* record is bookkeeping of the model: the table stores counts only.        *)

MaxClock == 3
MaxRuns == 3

Jobs == {1, 2}
ArchiveSources == {"komornik", "facebook"}
ArchiveThresholds == {1, 2}

UrlsOf(source) == IF source = "facebook" THEN {"f1"} ELSE {"k1"}
ArchiveUrls == UNION {UrlsOf(s) : s \in ArchiveSources}
SourceOf(url) == CHOOSE s \in ArchiveSources : url \in UrlsOf(s)

JobIdle == [pc |-> "idle", source |-> "", started_at |-> 0, rows |-> {}]
NotListed == [last_seen_at |-> None, removed |-> FALSE]

ArchiveStart ==
    [phase |-> "archive",
     listings |-> [u \in ArchiveUrls |-> NotListed],
     scrape_runs |-> <<>>,
     job |-> [j \in Jobs |-> JobIdle],
     archived |-> None]

Busy == {j \in Jobs : store.job[j].pc # "idle"}
MayStart(j) ==
    /\ store.phase = "archive"
    /\ store.job[j].pc = "idle"
    /\ Len(store.scrape_runs) + Cardinality(Busy) < MaxRuns

\* The database stamps last_seen_at on every row an upsert writes; a row's
\* removed mark is not among the columns a run sends.
Seen(listings, rows, at) ==
    [u \in ArchiveUrls |->
        IF u \in rows THEN [listings[u] EXCEPT !.last_seen_at = Some(at)]
        ELSE listings[u]]

ScrapeRun(source, started_at, finished_at, status, rows) ==
    [source |-> source, started_at |-> started_at, finished_at |-> finished_at,
     status |-> status, rows |-> rows]

Tick ==
    /\ store.phase = "archive"
    /\ now < MaxClock
    /\ now' = now + 1
    /\ UNCHANGED <<run_state, run_lock, req, worker, config, run, crawl, hook, site, store, fetch, parse>>

\* run.py 31-38: started_at is read, then the source is crawled
RunStart(j) ==
    /\ MayStart(j)
    /\ \E rows \in SUBSET UrlsOf("komornik"), raised \in BOOLEAN :
          store' = [store EXCEPT !.job[j] =
                       [pc |-> IF raised THEN "except" ELSE "crawled",
                        source |-> "komornik", started_at |-> now,
                        rows |-> IF raised THEN {} ELSE rows]]
    /\ UNCHANGED <<run_state, run_lock, req, worker, now, config, run, crawl, hook, site, fetch, parse>>

\* run.py 48-52 and 64-65: an empty crawl is logged as a successful run at
\* once, any other is upserted
RunUpsert(j) ==
    /\ store.phase = "archive"
    /\ store.job[j].pc = "crawled"
    /\ LET job == store.job[j]
       IN  store' =
             IF job.rows = {}
                 THEN [store EXCEPT
                          !.scrape_runs = Append(@, ScrapeRun(job.source, job.started_at,
                                                              now, "success", {})),
                          !.job[j] = JobIdle]
             ELSE [store EXCEPT !.listings = Seen(@, job.rows, now),
                                !.job[j].pc = "upserted"]
    /\ UNCHANGED <<run_state, run_lock, req, worker, now, config, run, crawl, hook, site, fetch, parse>>

\* run.py 66-70: finished_at is read and the run is logged
RunFinish(j) ==
    /\ store.phase = "archive"
    /\ store.job[j].pc = "upserted"
    /\ LET job == store.job[j]
       IN  store' = [store EXCEPT
                        !.scrape_runs = Append(@, ScrapeRun(job.source, job.started_at,
                                                            now, "success", job.rows)),
                        !.job[j] = JobIdle]
    /\ UNCHANGED <<run_state, run_lock, req, worker, now, config, run, crawl, hook, site, fetch, parse>>

\* run.py 73-86: a crawl that raised is logged as a failed run
RunExcept(j) ==
    /\ store.phase = "archive"
    /\ store.job[j].pc = "except"
    /\ LET job == store.job[j]
       IN  store' = [store EXCEPT
                        !.scrape_runs = Append(@, ScrapeRun(job.source, job.started_at,
                                                            now, "error", {})),
                        !.job[j] = JobIdle]
    /\ UNCHANGED <<run_state, run_lock, req, worker, now, config, run, crawl, hook, site, fetch, parse>>

\* apify_facebook.py 141-154: the rows of the dataset are upserted (a
\* dataset without rows returns before the store is opened)
HookUpsert(j) ==
    /\ MayStart(j)
    /\ store' = [store EXCEPT
                    !.listings = Seen(@, UrlsOf("facebook"), now),
                    !.job[j] = [pc |-> "hook_upserted", source |-> "facebook",
                                started_at |-> 0, rows |-> UrlsOf("facebook")]]
    /\ UNCHANGED <<run_state, run_lock, req, worker, now, config, run, crawl, hook, site, fetch, parse>>

\* apify_facebook.py 155: started_at is read, after the upsert
HookStartedAt(j) ==
    /\ store.phase = "archive"
    /\ store.job[j].pc = "hook_upserted"
    /\ store' = [store EXCEPT !.job[j].pc = "hook_started",
                              !.job[j].started_at = now]
    /\ UNCHANGED <<run_state, run_lock, req, worker, now, config, run, crawl, hook, site, fetch, parse>>

\* apify_facebook.py 156-166: finished_at is read and the run is logged
HookFinish(j) ==
    /\ store.phase = "archive"
    /\ store.job[j].pc = "hook_started"
    /\ LET job == store.job[j]
       IN  store' = [store EXCEPT
                        !.scrape_runs = Append(@, ScrapeRun(job.source, job.started_at,
                                                            now, "success", job.rows)),
                        !.job[j] = JobIdle]
    /\ UNCHANGED <<run_state, run_lock, req, worker, now, config, run, crawl, hook, site, fetch, parse>>

\* The answers the select of lines 94-103 may give: the successful runs of
\* the source whose finished_at is not null, latest finished_at first, at
\* most n of them (runs that finished at the same instant come in either
\* order).  A run is named by its place in the table.
RunsSelected(scrape_runs, source, n) ==
    LET eligible == {i \in DOMAIN scrape_runs :
                        /\ scrape_runs[i].source = source
                        /\ scrape_runs[i].status = "success"
                        /\ "finished_at" \in DOMAIN scrape_runs[i]}
        k == Min(n, Cardinality(eligible))
    IN  {data \in [1..k -> eligible] :
            /\ \A a, b \in 1..k : a < b =>
                  /\ data[a] # data[b]
                  /\ scrape_runs[data[a]].finished_at >= scrape_runs[data[b]].finished_at
            /\ \A i \in eligible : (\A a \in 1..k : data[a] # i) =>
                  \A a \in 1..k :
                     scrape_runs[data[a]].finished_at >= scrape_runs[i].finished_at}

\* The stored procedure archive_listings_not_seen_since(p_source, p_cutoff):
\* the listings of the source not yet marked and last seen before the cutoff.
archive_listings_not_seen_since(listings, p_source, p_cutoff) ==
    {u \in ArchiveUrls :
        /\ SourceOf(u) = p_source
        /\ listings[u].last_seen_at # None
        /\ ~listings[u].removed
        /\ listings[u].last_seen_at[1] < p_cutoff}

\* The mutant of ArchiveCutoff that takes the start of the latest run.
ArchiveCutoff_latest(scrape_runs, data, n) == scrape_runs[data[1]].started_at

\* line 107: cutoff = data[n - 1]["started_at"]
ArchiveCutoff(scrape_runs, data, n) == scrape_runs[data[n]].started_at

\* What one call did: the answer of the select, the listings marked, the
\* cutoff handed to the procedure (None when it was not called), the number
\* returned, whether the select or the procedure call failed, and whether an
\* exception left the function.
Archived(source, n, data, marked, cutoff, returned, failed) ==
    [source |-> source, n |-> n, data |-> data, marked |-> marked,
     cutoff |-> cutoff, returned |-> returned, failed |-> failed, raised |-> FALSE]

\* lines 82-127: what one call leaves in the store, given whether the select
\* succeeds, its answer data, and whether the procedure call succeeds; every
\* exception is caught at line 125 and 0 returned
archive_listings_not_seen_in_last_n_runs(source, n, data, query_ok, rpc_ok) ==
    IF ~query_ok
        THEN [store EXCEPT !.archived = Some(Archived(source, n, <<>>, {}, None, 0, TRUE))]
    ELSE IF Len(data) < n
        THEN [store EXCEPT !.archived = Some(Archived(source, n, data, {}, None, 0, FALSE))]
    ELSE LET cutoff == ArchiveCutoff(store.scrape_runs, data, n)
             marked == archive_listings_not_seen_since(store.listings, source, cutoff)
         IN  IF ~rpc_ok
                 THEN [store EXCEPT
                          !.archived = Some(Archived(source, n, data, {}, Some(cutoff), 0, TRUE))]
             ELSE [store EXCEPT
                      !.listings = [u \in ArchiveUrls |->
                                       IF u \in marked THEN [@[u] EXCEPT !.removed = TRUE]
                                       ELSE @[u]],
                      !.archived = Some(Archived(source, n, data, marked, Some(cutoff),
                                                 Cardinality(marked), FALSE))]

Archive ==
    /\ store.phase = "archive"
    /\ \E source \in ArchiveSources, n \in ArchiveThresholds,
          query_ok \in BOOLEAN, rpc_ok \in BOOLEAN :
          \E data \in RunsSelected(store.scrape_runs, source, n) :
             store' = archive_listings_not_seen_in_last_n_runs(source, n, data, query_ok, rpc_ok)
    /\ UNCHANGED <<run_state, run_lock, req, worker, now, config, run, crawl, hook, site, fetch, parse>>

InitArchive ==
    /\ ServerOff /\ run = RunOff /\ crawl = CrawlOff /\ hook = HookOff
    /\ store = ArchiveStart /\ fetch = FetchOff /\ parse = ParseOff

NextArchive ==
    \/ Tick
    \/ Archive
    \/ \E j \in Jobs :
          \/ RunStart(j)
          \/ RunUpsert(j)
          \/ RunFinish(j)
          \/ RunExcept(j)
          \/ HookUpsert(j)
          \/ HookStartedAt(j)
          \/ HookFinish(j)

SpecArchive == InitArchive /\ [][NextArchive]_vars

----------------------------------------------------------------------------
(* price_parser.py: price_pln_from_text, the parser of Polish price text    *)
(* into grosze.  parse.text is the argument (None for a missing text) and   *)
(* parse.out the returned value.  The float the code converts the number    *)
(* to is exact for the numbers of the model (two decimals at most, far      *)
(* below 2^53), so the arithmetic is done on integers.                      *)

MaxTokenLen == 4

NO_PRICE_PHRASES ==
    {
      <<"z", "a", "p", "y", "t", "a", "j", " ", "o", " ", "c", "e", "n", "e,">>,
      <<"z", "a", "p", "y", "t", "a", "j", " ", "o", " ", "c", "e", "n", "e">>,
      <<"c", "e", "n", "a", " ", "d", "o", " ", "n", "e", "g", "o", "c", "j",
        "a", "c", "j", "i">>,
      <<"c", "e", "n", "a", " ", "d", "o", " ", "u", "z", "g", "o", "d", "n",
        "i", "e", "n", "i", "a">>,
      <<"n", "a", " ", "z", "a", "p", "y", "t", "a", "n", "i", "e">>,
      <<"d", "o", " ", "u", "z", "g", "o", "d", "n", "i", "e", "n", "i", "a">>,
      <<"k", "o", "n", "t", "a", "k", "t">> }

Digits == <<"0", "1", "2", "3", "4", "5", "6", "7", "8", "9">>
IsDigit(c) == \E d \in 1..10 : Digits[d] = c
DigitValue(c) == (CHOOSE d \in 1..10 : Digits[d] = c) - 1

\* The mutant of _clean that keeps the case of the text.
_clean_keeps_case(s) == Strip(s)

\* (s or "").strip().lower()
_clean(s) == Lower(Strip(s))

\* The end of the longest run of [\d\s.] that follows position i.
RECURSIVE RunEnd(_, _)
RunEnd(t, i) ==
    IF i < Len(t) /\ (IsDigit(t[i + 1]) \/ IsSpace(t[i + 1]) \/ t[i + 1] = ".")
        THEN RunEnd(t, i + 1)
    ELSE i

\* _PRICE_RE.search(t), group 0: the leftmost match starts at the first
\* digit; the alternative with ",dd" is tried first and needs the comma
\* right after the run, the other alternative takes the run.
PriceMatch(t) ==
    LET starts == {i \in 1..Len(t) : IsDigit(t[i])}
    IN  IF starts = {} THEN None
        ELSE LET i == CHOOSE a \in starts : \A b \in starts : a <= b
                 j == RunEnd(t, i)
             IN  IF /\ j + 3 <= Len(t)
                    /\ t[j + 1] = ","
                    /\ IsDigit(t[j + 2])
                    /\ IsDigit(t[j + 3])
                     THEN Some(SubSeq(t, i, j + 3))
                 ELSE Some(SubSeq(t, i, j))

\* The mutant of _normalize_number that leaves the dots in place.
_normalize_number_keeps_dots(s) ==
    LET kept == SelectSeq(s, LAMBDA c : c \notin {" ", "nbsp"})
    IN  [i \in 1..Len(kept) |-> IF kept[i] = "," THEN "." ELSE kept[i]]

\* s.replace(" ", "").replace("\xa0", "").replace(".", "").replace(",", ".")
_normalize_number(s) ==
    LET kept == SelectSeq(s, LAMBDA c : c \notin {" ", "nbsp", "."})
    IN  [i \in 1..Len(kept) |-> IF kept[i] = "," THEN "." ELSE kept[i]]

RECURSIVE DigitsValue(_)
DigitsValue(ds) ==
    IF ds = <<>> THEN 0
    ELSE 10 * DigitsValue(SubSeq(ds, 1, Len(ds) - 1)) + DigitValue(ds[Len(ds)])

\* float(num_str): the literal without the whitespace around it, as its
\* integer digits and its fraction digits; None where float raises
\* ValueError (no digit, a second point, whitespace inside).
ParseFloat(num_str) ==
    LET u == Strip(num_str)
        points == {i \in 1..Len(u) : u[i] = "."}
    IN  IF \/ \E i \in 1..Len(u) : ~IsDigit(u[i]) /\ u[i] # "."
           \/ Cardinality(points) > 1
           \/ Len(u) = Cardinality(points)
            THEN None
        ELSE IF points = {} THEN Some([int |-> u, frac |-> <<>>])
        ELSE LET p == CHOOSE i \in points : TRUE
             IN  Some([int |-> SubSeq(u, 1, p - 1), frac |-> SubSeq(u, p + 1, Len(u))])

\* int(round(value * 100)): the hundredths of the literal, to the nearest
\* integer.
Grosze(f) ==
    LET d(k) == IF k <= Len(f.frac) THEN DigitValue(f.frac[k]) ELSE 0
    IN  100 * DigitsValue(f.int) + 10 * d(1) + d(2) + (IF d(3) >= 5 THEN 1 ELSE 0)

\* lines 34-58
price_pln_from_text(text) ==
    IF text = None \/ text[1] = <<>> \/ _clean(text[1]) = <<>> THEN None
    ELSE LET t == _clean(text[1])
             match == PriceMatch(t)
         IN  IF \E phrase \in NO_PRICE_PHRASES : Contains(t, phrase) THEN None
             ELSE IF match = None THEN None
             ELSE LET value == ParseFloat(_normalize_number(match[1]))
                  IN  IF value = None THEN None ELSE Some(Grosze(value[1]))

Text_Price1 == <<"1", " ", "2", "3", "4", ",", "5", "6", " ", "z", "l/">>
Text_Price2 == <<"9", "0", "0", " ", "P", "L", "N">>
Text_Cena == <<"C", "e", "n", "a", " ">>
Text_Kontakt == <<"K", "O", "N", "T", "A", "K", "T", " ">>
Text_Negocjacji == <<"C", "e", "n", "a", " ", "d", "o", " ", "n", "e", "g", "o", "c", "j",
      "a", "c", "j", "i", " ">>
Text_Zapytaj == <<"Z", "a", "p", "y", "t", "a", "j", " ", "o", " ", "c", "e", "n", "E,", " ">>
Text_Zl == <<" ", "z", "l/">>

\* The characters a price token of the model is made of.
TokenChars == {"1", "5", " ", ".", ",", "nbsp", "\n"}

\* Price texts: a lead (nothing, a label, or a no-price phrase in either
\* case), a token of up to MaxTokenLen characters, and a currency or not.
PriceTexts ==
    {None, Some(Text_Price1), Some(Text_Price2)}
        \cup {Some(lead \o token \o unit) :
                lead \in {<<>>, Text_Cena, Text_Kontakt, Text_Negocjacji, Text_Zapytaj},
                token \in SeqsUpTo(TokenChars, MaxTokenLen),
                unit \in {<<>>, Text_Zl}}

PriceInputs == [phase : {"call"}, fn : {"price_pln_from_text"}, text : PriceTexts]

\* One call of price_pln_from_text on the text drawn by InitPrice.
PricePlnFromText ==
    /\ parse.phase = "call"
    /\ parse.fn = "price_pln_from_text"
    /\ parse' = [phase |-> "done", fn |-> parse.fn, text |-> parse.text,
                 out |-> price_pln_from_text(parse.text)]
    /\ UNCHANGED <<run_state, run_lock, req, worker, now, config, run, crawl, hook, site, store, fetch>>

InitPrice ==
    /\ ServerOff /\ run = RunOff /\ crawl = CrawlOff /\ hook = HookOff
    /\ store = StoreOff /\ fetch = FetchOff /\ parse \in PriceInputs

SpecPrice == InitPrice /\ [][PricePlnFromText]_vars

----------------------------------------------------------------------------
(* scrapers/amw.py: _parse_auction_date, the parser of the auction date of  *)
(* an AMW card.  parse.text is the argument and parse.out the datetime      *)
(* returned, as its fields and its zone.  The texts are written from the    *)
(* parts kept in parse.day, month, year, suffix and time.                   *)

\* \d{n} at position i
DigitsAt(t, i, n) == i + n - 1 <= Len(t) /\ \A k \in i..(i + n - 1) : IsDigit(t[k])

\* a literal at position i
LitAt(t, i, lit) == i + Len(lit) - 1 <= Len(t) /\ SubSeq(t, i, i + Len(lit) - 1) = lit

\* \s* from position i: the position after the whitespace
RECURSIVE SkipSpaces(_, _)
SkipSpaces(t, i) == IF i <= Len(t) /\ IsSpace(t[i]) THEN SkipSpaces(t, i + 1) ELSE i

\* c? at position i: the position after it
Opt(t, i, c) == IF i <= Len(t) /\ t[i] = c THEN i + 1 ELSE i

\* (\d{1,2})\.(\d{1,2})\.(\d{4}) at position i: the groups and the position
\* after the match, or None
DateAt(t, i) ==
    LET fits == {w \in {1, 2} \X {1, 2} :
                    /\ DigitsAt(t, i, w[1])
                    /\ LitAt(t, i + w[1], <<".">>)
                    /\ DigitsAt(t, i + w[1] + 1, w[2])
                    /\ LitAt(t, i + w[1] + 1 + w[2], <<".">>)
                    /\ DigitsAt(t, i + w[1] + w[2] + 2, 4)}
    IN  IF fits = {} THEN None
        ELSE LET w == CHOOSE x \in fits : TRUE
                 m == i + w[1] + 1
                 y == m + w[2] + 1
             IN  Some([day |-> SubSeq(t, i, i + w[1] - 1),
                       month |-> SubSeq(t, m, m + w[2] - 1),
                       year |-> SubSeq(t, y, y + 3),
                       end |-> y + 4])

\* r?\s*,?\s*godz\.?\s*(\d{1,2}):(\d{2}) at position i: the groups, or None
TimeAt(t, i) ==
    LET g == SkipSpaces(t, Opt(t, SkipSpaces(t, Opt(t, i, "r")), ","))
        h == SkipSpaces(t, Opt(t, g + 4, "."))
        fits == {w \in {1, 2} :
                    /\ DigitsAt(t, h, w)
                    /\ LitAt(t, h + w, <<":">>)
                    /\ DigitsAt(t, h + w + 1, 2)}
    IN  IF ~LitAt(t, g, <<"g", "o", "d", "z">>) \/ fits = {} THEN None
        ELSE LET w == CHOOSE x \in fits : TRUE
             IN  Some([hour |-> SubSeq(t, h, h + w - 1),
                       minute |-> SubSeq(t, h + w + 1, h + w + 2)])

\* re.search: the leftmost of the positions where the pattern matches
FirstMatch(at) ==
    IF at = {} THEN None ELSE Some(CHOOSE i \in at : \A j \in at : i <= j)

IsLeap(year) == year % 4 = 0 /\ (year % 100 # 0 \/ year % 400 = 0)

DaysInMonth(year, month) ==
    IF month = 2 THEN (IF IsLeap(year) THEN 29 ELSE 28)
    ELSE IF month \in {4, 6, 9, 11} THEN 30
    ELSE 31

\* The mutant of NewDatetime that accepts every field.
NewDatetime_unchecked(year, month, day, hour, minute) ==
    Some([year |-> year, month |-> month, day |-> day, hour |-> hour, minute |-> minute])

\* datetime(year, month, day, hour, minute): None where it raises ValueError
NewDatetime(year, month, day, hour, minute) ==
    IF /\ year \in 1..9999
       /\ month \in 1..12
       /\ day \in 1..DaysInMonth(year, month)
       /\ hour \in 0..23
       /\ minute \in 0..59
        THEN Some([year |-> year, month |-> month, day |-> day,
                   hour |-> hour, minute |-> minute])
    ELSE None

\* pytz.timezone("Europe/Warsaw").localize(dt): the fields stay, the zone is set
Localize(dt) ==
    [year |-> dt.year, month |-> dt.month, day |-> dt.day,
     hour |-> dt.hour, minute |-> dt.minute, tz |-> "Europe/Warsaw"]

\* lines 24-43
amw_parse_auction_date(text) ==
    IF text = None \/ text[1] = <<>> THEN None
    ELSE
    LET t == Strip(text[1])
        WithTime(i) == DateAt(t, i) # None /\ TimeAt(t, DateAt(t, i)[1].end) # None
        DateOnly(i) == DateAt(t, i) # None
        m1 == FirstMatch({i \in 1..Len(t) : WithTime(i)})
        m2 == FirstMatch({i \in 1..Len(t) : DateOnly(i)})
    IN  IF m1 = None /\ m2 = None THEN None
        ELSE
        LET d == DateAt(t, IF m1 # None THEN m1[1] ELSE m2[1])[1]
            day == DigitsValue(d.day)
            month == DigitsValue(d.month)
            year == DigitsValue(d.year)
            hour == IF m1 # None THEN DigitsValue(TimeAt(t, d.end)[1].hour) ELSE 10
            minute == IF m1 # None THEN DigitsValue(TimeAt(t, d.end)[1].minute) ELSE 0
            dt == NewDatetime(year, month, day, hour, minute)
        IN  IF dt = None THEN None ELSE Some(Localize(dt[1]))

Text_WDniu == <<"W", " ", "d", "n", "i", "u", ":", " ">>
Text_Godz == <<",", " ", "g", "o", "d", "z", ".", " ">>
Text_GodzShort == <<",", "g", "o", "d", "z", " ">>

\* The parts a date text is written from: days, months and years as
\* written (with or without a leading zero, in and out of the calendar),
\* "r" or not after the year, and a time or none.
DateParts ==
    [lead : {<<>>, Text_WDniu},
     day : {<<"1">>, <<"0", "9">>, <<"2", "8">>, <<"2", "9">>, <<"3", "0">>, <<"3", "1">>, <<"3", "2">>, <<"0", "0">>},
     month : {<<"2">>, <<"0", "2">>, <<"0", "4">>, <<"1", "2">>, <<"1", "3">>, <<"0">>},
     year : {<<"2", "0", "2", "6">>, <<"2", "0", "2", "4">>, <<"2", "1", "0", "0">>, <<"2", "0", "0", "0">>, <<"0", "0", "0", "0">>},
     suffix : {<<>>, <<"r">>},
     godz : {Text_Godz, Text_GodzShort},
     time : {None,
             Some(<<<<"1", "0">>, <<"0", "0">>>>),
             Some(<<<<"9">>, <<"3", "0">>>>),
             Some(<<<<"2", "3">>, <<"5", "9">>>>),
             Some(<<<<"2", "4">>, <<"0", "0">>>>),
             Some(<<<<"1", "0">>, <<"6", "0">>>>)}]

\* 'day.month.year[r], godz. HH:MM'
DateText(p) ==
    p.lead \o p.day \o <<".">> \o p.month \o <<".">> \o p.year \o p.suffix
        \o (IF p.time = None THEN <<>>
            ELSE p.godz \o p.time[1][1] \o <<":">> \o p.time[1][2])

DateInputs ==
    {[phase |-> "call", fn |-> "_parse_auction_date", parts |-> p, text |-> Some(DateText(p))] :
        p \in {q \in DateParts : q.time = None => q.godz = Text_Godz}}

\* One call of _parse_auction_date on the text drawn by InitDate.
ParseAuctionDate ==
    /\ parse.phase = "call"
    /\ parse.fn = "_parse_auction_date"
    /\ parse' = [phase |-> "done", fn |-> parse.fn, parts |-> parse.parts,
                 text |-> parse.text, out |-> amw_parse_auction_date(parse.text)]
    /\ UNCHANGED <<run_state, run_lock, req, worker, now, config, run, crawl, hook, site, store, fetch>>

InitDate ==
    /\ ServerOff /\ run = RunOff /\ crawl = CrawlOff /\ hook = HookOff
    /\ store = StoreOff /\ fetch = FetchOff /\ parse \in DateInputs

SpecDate == InitDate /\ [][ParseAuctionDate]_vars

----------------------------------------------------------------------------
(* webhook_server.py: the background thread of one on-demand run, as         *)
(* api_run leaves it (status 'running', thread 1 started), over the caps,    *)
(* source selections and sites one run can meet.                             *)

MaxAvailable == 3    \* rows a source has on offer

WorkerConfigs ==
    { Config(None, listings, sources) :
        listings \in {None, <<"int", 0>>, <<"int", 1>>, <<"int", 2>>, <<"str", "abc">>},
        sources \in {None, Some({"e_licytacje", "amw"}), Some({"komornik", "amw"})} }

WorkerSites ==
    [rows : 0..MaxAvailable, failing : {"none", "komornik", "e_licytacje"},
     env : {EnvOk}]

RunStateRunning ==
    [status |-> "running", started_at |-> Some(1), finished_at |-> None,
     results |-> None, error |-> None]

InitWorker ==
    /\ run_state = RunStateRunning
    /\ run_lock = 0
    /\ req = [r \in Requests |-> ReqNew]
    /\ worker = [w \in Triggers |-> IF w = 1 THEN [WorkerOff EXCEPT !.pc = "start"]
                                    ELSE WorkerOff]
    /\ now = 2
    /\ config \in WorkerConfigs
    /\ site \in WorkerSites
    /\ run = RunOff
    /\ crawl = CrawlOff
    /\ hook = HookOff
    /\ store = StoreOff
    /\ fetch = FetchOff /\ parse = ParseOff

NextWorker ==
    \E w \in Triggers :
        \/ WorkerStart(w)
        \/ WorkerScrape(w)
        \/ WorkerLock(w)
        \/ WorkerWriteCompleted(w)
        \/ WorkerWriteError(w)

SpecWorker == InitWorker /\ [][NextWorker]_vars

----------------------------------------------------------------------------
(* webhook_server.py: the secret checks of the three endpoints.  One request *)
(* is sent to each endpoint; a handler runs as a whole.  The configuration   *)
(* holds run_api.secret and apify.webhook_secret as the file or environment  *)
(* gives them: absent, empty, blank, or a text with or without blanks around.*)

Text_S3 == <<"s", "3">>
Text_S3Padded == <<" ", "s", "3", " ">>
Text_Wrong == <<"x">>
Text_Blank == <<" ">>
Text_Dataset1 == <<"d", "1">>
Text_Dataset2 == <<"d", "2">>

Endpoints == {"api_run", "api_run_status", "webhook_apify"}

SecretValues == {None, Some(<<>>), Some(Text_Blank), Some(Text_S3), Some(Text_S3Padded)}
AuthHeaders == {None, Some(Text_S3), Some(Text_Wrong)}

\* _check_run_secret lines 90-93: the secret the run endpoints compare with,
\* None when the check is off
run_secret(run_api_secret, webhook_secret) ==
    LET secret == OrElse(run_api_secret, webhook_secret)
    IN  IF secret = None \/ secret[1] = <<>> \/ Strip(secret[1]) = <<>> THEN None
        ELSE Some(Strip(secret[1]))

\* The mutant of get_webhook_secret that finds no secret.
get_webhook_secret_none(cfg) == None

\* _get_webhook_secret()
get_webhook_secret(cfg) ==
    IF cfg.webhook_secret # None /\ cfg.webhook_secret[1] # <<>>
        THEN Some(Strip(cfg.webhook_secret[1]))
    ELSE None

\* webhook_apify lines 63-68: whether a request carrying `provided` in
\* x-apify-webhook-secret is let through
check_webhook_secret(provided) ==
    LET secret == get_webhook_secret(config)
    IN  (secret # None /\ secret[1] # <<>>) => provided = secret

AuthConfig(run_api_secret, webhook_secret) ==
    [secret |-> run_secret(run_api_secret, webhook_secret),
     on_demand_max_listings |-> None, sources |-> None,
     run_api_secret |-> run_api_secret, webhook_secret |-> webhook_secret]

AuthConfigs == { AuthConfig(r, w) : r \in SecretValues, w \in SecretValues }

NotJson == [not_json |-> TRUE]

\* Bodies of a webhook request: no JSON, JSON without dataset, datasetId,
\* a blank datasetId beside resource.defaultDatasetId.
Bodies ==
    { NotJson,
      [datasetId |-> None, resource |-> None],
      [datasetId |-> Some(Text_Dataset1), resource |-> None],
      [datasetId |-> Some(Text_Blank),
       resource |-> Some([defaultDatasetId |-> Some(Text_Dataset2)])] }

\* _dataset_id_from_payload(body)
dataset_id_from_payload(body) ==
    IF body.datasetId # None /\ Strip(body.datasetId[1]) # <<>>
        THEN Some(Strip(body.datasetId[1]))
    ELSE IF body.resource # None
            /\ body.resource[1].defaultDatasetId # None
            /\ Strip(body.resource[1].defaultDatasetId[1]) # <<>>
        THEN Some(Strip(body.resource[1].defaultDatasetId[1]))
    ELSE None

\* What the dataset run of a webhook request meets.
DatasetInputs ==
    [token : {<<>>, <<"t">>},
     fetched : {[raised |-> TRUE, items |-> <<>>],
                [raised |-> FALSE,
                 items |-> <<[postUrl |-> Some(Text_Url1), text |-> Some(Text_Sprzedam)]>>]},
     env : {EnvOk, [EnvOk EXCEPT !.upsert_fail = TRUE]}]

Asked(e, provided, code, snap) ==
    req' = [req EXCEPT ![e] = [pc |-> "done", provided |-> provided,
                               resp |-> code, snap |-> snap]]

\* api_run, lines 170-192, for a request carrying `provided` in x-run-secret
ApiRunCall ==
    /\ req["api_run"].pc = "new"
    /\ \E provided \in AuthHeaders :
          IF ~check_run_secret(provided)
              THEN Asked("api_run", provided, 401, None) /\ UNCHANGED <<run_state, worker, now>>
          ELSE IF run_state.status = "running"
              THEN Asked("api_run", provided, 409, None) /\ UNCHANGED <<run_state, worker, now>>
          ELSE /\ run_state' = [status |-> "running", started_at |-> Some(now),
                                finished_at |-> None, results |-> None, error |-> None]
               /\ now' = now + 1
               /\ \/ /\ worker' = [worker EXCEPT ![1] = [WorkerOff EXCEPT !.pc = "start"]]
                     /\ Asked("api_run", provided, 202, None)
                  \/ /\ Asked("api_run", provided, 500, None)
                     /\ UNCHANGED worker
    /\ UNCHANGED <<run_lock, config, run, crawl, hook, site, store, fetch, parse>>

\* api_run_status, lines 201-211
ApiRunStatusCall ==
    /\ req["api_run_status"].pc = "new"
    /\ \E provided \in AuthHeaders :
          IF ~check_run_secret(provided)
              THEN Asked("api_run_status", provided, 401, None)
          ELSE Asked("api_run_status", provided, 200, Some(run_state))
    /\ UNCHANGED <<run_state, run_lock, worker, now, config, run, crawl, hook, site, store, fetch, parse>>

\* webhook_apify, lines 62-85, for a request carrying `provided` in
\* x-apify-webhook-secret
WebhookApifyCall ==
    /\ req["webhook_apify"].pc = "new"
    /\ \E provided \in AuthHeaders, body \in Bodies, d \in DatasetInputs :
          IF ~check_webhook_secret(provided)
              THEN Asked("webhook_apify", provided, 401, None) /\ UNCHANGED hook
          ELSE IF body = NotJson \/ dataset_id_from_payload(body) = None
              THEN Asked("webhook_apify", provided, 400, None) /\ UNCHANGED hook
          ELSE LET out == process_apify_dataset(d.token, d.fetched, d.env)
               IN  /\ hook' = [phase |-> "done", token |-> d.token, fetched |-> d.fetched,
                               env |-> d.env, out |-> out,
                               dataset_id |-> dataset_id_from_payload(body)]
                   /\ Asked("webhook_apify", provided,
                            IF ~out.raised THEN 200
                            ELSE IF out.msg[1][1] = "ValueError" THEN 400
                            ELSE 500,
                            None)
    /\ UNCHANGED <<run_state, run_lock, worker, now, config, run, crawl, site, store, fetch, parse>>

RunStateCompleted ==
    [status |-> "completed", started_at |-> Some(1), finished_at |-> Some(2),
     results |-> Some(<<>>), error |-> None]

InitAuth ==
    /\ run_state \in {RunStateIdle, RunStateCompleted}
    /\ run_lock = 0
    /\ req = [e \in Endpoints |-> [pc |-> "new", provided |-> None, resp |-> 0, snap |-> None]]
    /\ worker = [w \in Triggers |-> WorkerOff]
    /\ now = 3
    /\ config \in AuthConfigs
    /\ site = SiteOff
    /\ run = RunOff
    /\ crawl = CrawlOff
    /\ hook = HookOff
    /\ store = StoreOff
    /\ fetch = FetchOff /\ parse = ParseOff

NextAuth == ApiRunCall \/ ApiRunStatusCall \/ WebhookApifyCall

SpecAuth == InitAuth /\ [][NextAuth]_vars

----------------------------------------------------------------------------
(* supabase_client.py: one call of archive_listings_not_seen_in_last_n_runs  *)
(* on a run table as it may stand: runs of either source, successful or not, *)
(* with or without a finish time.                                            *)

MaxTableRuns == 2    \* rows of the run table

\* A row of scrape_runs whose finished_at is null.
UnfinishedRun(source, started_at, status) ==
    [source |-> source, started_at |-> started_at, status |-> status, rows |-> {}]

TableRuns ==
    { ScrapeRun(source, t, t + 1, status, {}) :
        source \in ArchiveSources, t \in 1..(MaxClock - 1), status \in {"success", "error"} }
    \cup { ScrapeRun(source, t, t + 2, "success", {}) :
        source \in ArchiveSources, t \in 1..(MaxClock - 1) }
    \cup { UnfinishedRun(source, t, "success") :
        source \in ArchiveSources, t \in 1..(MaxClock - 1) }

\* The listings at the call: the one of facebook seen at 1, the one of
\* komornik not there, seen some time, or marked before.
TableListings ==
    { [u \in ArchiveUrls |->
          IF u \in UrlsOf("facebook") THEN [last_seen_at |-> Some(1), removed |-> FALSE]
          ELSE l] :
        l \in {NotListed} \cup [last_seen_at : {Some(t) : t \in 0..(MaxClock - 1)},
                                removed : BOOLEAN] }

ArchiveCall ==
    /\ store.phase = "call"
    /\ \E source \in ArchiveSources, n \in ArchiveThresholds,
          query_ok \in BOOLEAN, rpc_ok \in BOOLEAN :
          \E data \in RunsSelected(store.scrape_runs, source, n) :
             store' = [archive_listings_not_seen_in_last_n_runs(
                           source, n, data, query_ok, rpc_ok) EXCEPT !.phase = "done"]
    /\ UNCHANGED <<run_state, run_lock, req, worker, now, config, run, crawl, hook, site, fetch, parse>>

InitArchiveCall ==
    /\ ServerOff /\ run = RunOff /\ crawl = CrawlOff /\ hook = HookOff
    /\ \E listings \in TableListings, scrape_runs \in SeqsUpTo(TableRuns, MaxTableRuns) :
          store = [phase |-> "call", listings |-> listings, before |-> listings,
                   scrape_runs |-> scrape_runs, job |-> [j \in Jobs |-> JobIdle],
                   archived |-> None]
    /\ fetch = FetchOff /\ parse = ParseOff

SpecArchiveCall == InitArchiveCall /\ [][ArchiveCall]_vars

----------------------------------------------------------------------------
(* cli.py and run.py: the command 'run SOURCE' and run_one. *)

\* cli.py line 18: choices of the argument of 'run'
CLI_CHOICES == {"komornik", "e_licytacje", "amw"}

\* run.py lines 115-118: the keys of map_fn
map_fn == {"komornik", "e_licytacje"}

MSG_UNKNOWN == <<"ValueError", "Unknown source">>

\* run_one(source, config, dry_run), lines 110-122: the exception that leaves
\* it, whether scrape_fn was called, and what run_scraper returned
run_one(source, scraped, dry_run, env) ==
    IF source \notin map_fn
        THEN [raised |-> TRUE, msg |-> Some(MSG_UNKNOWN), crawled |-> FALSE, out |-> None]
    ELSE [raised |-> FALSE, msg |-> None, crawled |-> TRUE,
          out |-> Some(run_scraper(source, scraped, dry_run, env))]

\* The calls of run_one: from the command line, and with a name the command
\* line refuses.
CliInputs ==
    [phase : {"call"},
     source : CLI_CHOICES \cup {"olx"},
     scraped : {ScrapeRaised} \cup {Scraped(rows) : rows \in SeqsUpTo(SampleRows, 1)},
     dry_run : BOOLEAN,
     env : {EnvOk, [EnvOk EXCEPT !.creds = FALSE]}]

\* main() lines 31-33 for 'run', or a direct call of run_one
RunOneCall ==
    /\ run.phase = "call"
    /\ run' = [phase |-> "done", source |-> run.source, scraped |-> run.scraped,
               dry_run |-> run.dry_run, env |-> run.env,
               out |-> run_one(run.source, run.scraped, run.dry_run, run.env)]
    /\ UNCHANGED <<run_state, run_lock, req, worker, now, config, crawl, hook, site, store, fetch, parse>>

InitCli ==
    /\ ServerOff /\ run \in CliInputs /\ crawl = CrawlOff /\ hook = HookOff
    /\ store = StoreOff /\ fetch = FetchOff /\ parse = ParseOff

SpecCli == InitCli /\ [][RunOneCall]_vars

----------------------------------------------------------------------------
(* run.py run_all and webhook_server.py _run_scrapers_background: the loop   *)
(* over the sources, with the start and the return of each run_scraper call  *)
(* as separate steps.  log is the history of the loop: <<"begin", name>>     *)
(* when scrape_fn is entered, <<"end", name, status>> when run_scraper       *)
(* returns, <<"skip", name>> for a source the on-demand cap leaves out.      *)

\* run_all lines 95-103: the scrapers to run, in order
RunAllScrapers(cfg) ==
    SelectSeq(<<"komornik", "e_licytacje">>,
        LAMBDA n : cfg.sources = None \/ cfg.sources[1] = {} \/ n \in cfg.sources[1])

SeqScrapers ==
    IF run.mode = "run_all" THEN RunAllScrapers(run.cfg) ELSE Scrapers(run.cfg)

\* What the crawl of each source does, and the store the runs meet.
SeqSites ==
    { [name \in SourceNames |-> IF name = "komornik" THEN k
                                ELSE IF name = "e_licytacje" THEN e ELSE a] :
        k \in {ScrapeRaised, Scraped(<<>>), Scraped(<<ListingRow>>)},
        e \in {ScrapeRaised, Scraped(<<>>), Scraped(<<ListingRow>>)},
        a \in {ScrapeRaised, Scraped(<<ListingRow>>)} }

SeqInputs ==
    [phase : {"seq"},
     mode : {"run_all"},
     dry_run : BOOLEAN,
     cfg : {Config(None, None, sources) :
               sources \in {None, Some({"e_licytacje", "amw"})}},
     scraped : SeqSites,
     env : {EnvOk, [EnvOk EXCEPT !.upsert_fail = TRUE]}]
    \cup
    [phase : {"seq"},
     mode : {"on_demand"},
     dry_run : {FALSE},
     cfg : {Config(None, listings, sources) :
               listings \in {None, <<"int", 1>>},
               sources \in {None, Some({"e_licytacje", "amw"})}},
     scraped : SeqSites,
     env : {EnvOk, [EnvOk EXCEPT !.upsert_fail = TRUE]}]

SeqStart(input) ==
    [phase |-> "seq", mode |-> input.mode, dry_run |-> input.dry_run, cfg |-> input.cfg,
     scraped |-> input.scraped, env |-> input.env,
     pc |-> "loop", i |-> 1, remaining |-> MaxListings(input.cfg),
     log |-> <<>>, results |-> <<>>]

\* webhook_server.py lines 130-138: a source the cap leaves out
SeqSkip ==
    /\ run.phase = "seq" /\ run.pc = "loop"
    /\ run.i <= Len(SeqScrapers)
    /\ run.mode = "on_demand" /\ run.remaining <= 0
    /\ LET name == SeqScrapers[run.i]
       IN  run' = [run EXCEPT
                      !.log = Append(@, <<"skip", name>>),
                      !.results = Append(@, SourceResult(name, 0, 0, "skipped", Some(MSG_CAP))),
                      !.i = @ + 1]
    /\ UNCHANGED <<run_state, run_lock, req, worker, now, config, crawl, hook, site, store, fetch, parse>>

\* run.py line 106, webhook_server.py line 140: run_scraper is called and
\* enters scrape_fn
SeqBegin ==
    /\ run.phase = "seq" /\ run.pc = "loop"
    /\ run.i <= Len(SeqScrapers)
    /\ run.mode = "on_demand" => run.remaining > 0
    /\ run' = [run EXCEPT !.log = Append(@, <<"begin", SeqScrapers[run.i]>>),
                          !.pc = "crawling"]
    /\ UNCHANGED <<run_state, run_lock, req, worker, now, config, crawl, hook, site, store, fetch, parse>>

\* The mutant of SeqEnd in which an error ends the loop.
SeqEnd_stops ==
    /\ run.phase = "seq" /\ run.pc = "crawling"
    /\ LET name == SeqScrapers[run.i]
           out == run_scraper(name, run.scraped[name], run.dry_run, run.env)
       IN  run' = [run EXCEPT
                      !.log = Append(@, <<"end", name, out.status>>),
                      !.results = Append(@, SourceResult(name, out.found, out.upserted,
                                                         out.status, out.error_message)),
                      !.remaining = IF run.mode = "on_demand" THEN Max(0, @ - out.found)
                                    ELSE @,
                      !.i = @ + 1,
                      !.pc = IF out.status = "error" THEN "done" ELSE "loop"]
    /\ UNCHANGED <<run_state, run_lock, req, worker, now, config, crawl, hook, site, store, fetch, parse>>

\* run.py line 106, webhook_server.py lines 140-148: run_scraper returns and
\* the loop goes on to the next source
SeqEnd ==
    /\ run.phase = "seq" /\ run.pc = "crawling"
    /\ LET name == SeqScrapers[run.i]
           out == run_scraper(name, run.scraped[name], run.dry_run, run.env)
       IN  run' = [run EXCEPT
                      !.log = Append(@, <<"end", name, out.status>>),
                      !.results = Append(@, SourceResult(name, out.found, out.upserted,
                                                         out.status, out.error_message)),
                      !.remaining = IF run.mode = "on_demand" THEN Max(0, @ - out.found)
                                    ELSE @,
                      !.i = @ + 1,
                      !.pc = "loop"]
    /\ UNCHANGED <<run_state, run_lock, req, worker, now, config, crawl, hook, site, store, fetch, parse>>

\* run.py line 107, webhook_server.py line 149: the loop is over
SeqFinish ==
    /\ run.phase = "seq" /\ run.pc = "loop"
    /\ run.i > Len(SeqScrapers)
    /\ run' = [run EXCEPT !.pc = "done"]
    /\ UNCHANGED <<run_state, run_lock, req, worker, now, config, crawl, hook, site, store, fetch, parse>>

InitSequence ==
    /\ ServerOff /\ crawl = CrawlOff /\ hook = HookOff
    /\ \E input \in SeqInputs : run = SeqStart(input)
    /\ store = StoreOff /\ fetch = FetchOff /\ parse = ParseOff

NextSequence == SeqSkip \/ SeqBegin \/ SeqEnd \/ SeqFinish

SpecSequence == InitSequence /\ [][NextSequence]_vars

\* One thread runs the loop and every crawl returns or raises (bounded pages,
\* bounded retries, timeouts), so a step that can be taken is taken.
SpecSequenceFair == SpecSequence /\ WF_vars(NextSequence)

----------------------------------------------------------------------------
(* The on-demand run: claims C1 to C4, checked under Spec. *)

\* A trigger that passed the check of line 176 and has not yet started its thread.
Accepted(r) == req[r].pc \in {"w_status", "w_started", "w_finished", "w_results", "w_error", "spawn"}
\* A background thread that has not yet written the end of its run.
InFlight(w) == worker[w].pc \notin {"off", "exit"}

C1_AtMostOneRun ==
    /\ Cardinality({r \in Triggers : Accepted(r) \/ InFlight(r)}) <= 1
    /\ \A r \in Triggers : req[r].resp = 409 => worker[r].pc = "off"

C1_CheckStep ==
    \A r \in Triggers :
        (req[r].pc = "check" /\ req'[r] # req[r]) =>
            IF run_state.status = "running"
                THEN /\ req'[r].pc = "done"
                     /\ req'[r].resp = 409
                     /\ run_state' = run_state
                     /\ worker' = worker
            ELSE Accepted(r)'

\* C1: at most one background run is in flight at a time: a trigger that
\* finds the status 'running' is answered 409, starts no worker and leaves
\* the run-state record unchanged, and a trigger that finds another status
\* is the one accepted, so that of several simultaneous triggers exactly one
\* is.
C1_SingleRun == [](C1_AtMostOneRun) /\ [][C1_CheckStep]_vars

\* A trigger was answered 409 while the run another trigger started is crawling.
C1_Witness ==
    \E r1, r2 \in Triggers :
        /\ r1 # r2
        /\ req[r1].resp = 409
        /\ req[r2].resp = 202
        /\ worker[r2].pc = "loop"

\* C2: whenever the status is 'running' there is a background worker (or a
\* trigger about to start one) that will end the run; the status does not
\* stay 'running' with nobody left to change it.
C2_RunningHasWorker ==
    run_state.status = "running" =>
        \E r \in Triggers : Accepted(r) \/ InFlight(r)

Set(o) == o # None

SnapshotConsistent(s) ==
    /\ s.status = "idle" =>
          ~Set(s.started_at) /\ ~Set(s.finished_at) /\ ~Set(s.results) /\ ~Set(s.error)
    /\ s.status = "running" =>
          Set(s.started_at) /\ ~Set(s.finished_at) /\ ~Set(s.results) /\ ~Set(s.error)
    /\ s.status = "completed" =>
          /\ Set(s.started_at) /\ Set(s.finished_at) /\ Set(s.results) /\ ~Set(s.error)
          /\ s.started_at[1] < s.finished_at[1]
    /\ s.status = "error" =>
          /\ Set(s.started_at) /\ Set(s.finished_at) /\ Set(s.error)
          /\ s.started_at[1] < s.finished_at[1]

\* C3: every snapshot the status query returns is consistent: 'running' has
\* started_at and neither finished_at, results nor error; 'completed' has
\* finished_at and results and no error; 'error' has finished_at and error;
\* and the end of a run in a snapshot is the end of the run whose start the
\* snapshot shows, not a field left by another transition.
C3_SnapshotConsistent ==
    \A q \in Queries : req[q].snap # None => SnapshotConsistent(req[q].snap[1])

\* A snapshot of the second run while it is running: the record held the
\* first run's finished_at and results when the trigger began to rewrite it.
C3_Witness ==
    \E q \in Queries :
        /\ req[q].snap # None
        /\ req[q].snap[1].status = "running"
        /\ req[q].snap[1].started_at[1] > 1

\* C4 as stated: the run-level status the status query surfaces is one of
\* 'success', 'error', 'running', 'idle'.
C4_StatusAsStated ==
    \A q \in Queries :
        req[q].snap # None => req[q].snap[1].status \in {"success", "error", "running", "idle"}

\* C4, amended: the run-level status the status query surfaces is one of
\* 'completed', 'error', 'running', 'idle'.
C4_StatusValues ==
    \A q \in Queries :
        req[q].snap # None =>
            req[q].snap[1].status \in {"completed", "error", "running", "idle"}

\* The status query answered with the record of a run that completed.
C4_Witness ==
    \E q \in Queries :
        /\ req[q].resp = 200
        /\ req[q].snap # None
        /\ req[q].snap[1].status = "completed"

----------------------------------------------------------------------------
(* The Run Coordinator: claims C5 and C8 to C10, checked under SpecRun. *)

RunDone == run.phase = "done"
Flagged(row) == is_likely_error_page(Get(row, "title"), Get(row, "description"))
Ops(kind) == SelectSeq(run.out.ops, LAMBDA o : o.op = kind)

\* The j-th smallest element of a set of numbers.
Nth(S, j) == CHOOSE i \in S : Cardinality({k \in S : k < i}) = j - 1

\* C5: the batch run_scraper passes to upsert_listings holds no row the
\* Error-Page Guard flags, and holds every other crawled row (prepared for
\* the store), in the order of the crawl.
C5_GuardBeforeUpsert ==
    RunDone /\ ~run.dry_run /\ ~run.scraped.raised /\ run.scraped.rows # <<>> /\ run.env.creds
    => LET rows == run.scraped.rows
           keep == {i \in 1..Len(rows) : ~Flagged(rows[i])}
       IN  /\ run.out.batch # None
           /\ LET batch == run.out.batch[1]
              IN  /\ \A j \in 1..Len(batch) : ~Flagged(batch[j])
                  /\ Len(batch) = Cardinality(keep)
                  /\ \A j \in 1..Len(batch) : batch[j] = for_supabase(rows[Nth(keep, j)])
                  /\ batch # <<>> => Ops("upsert")[1].rows = batch

\* A crawl of two rows, the first flagged and the second not, was upserted.
C5_Witness ==
    /\ RunDone
    /\ run.out.batch # None
    /\ Len(run.scraped.rows) = 2
    /\ Flagged(run.scraped.rows[1])
    /\ Len(run.out.batch[1]) = 1
    /\ Ops("upsert") # <<>>

CrawlRaised == run.scraped.raised
ClientRaised == ~run.dry_run /\ ~CrawlRaised /\ ~run.env.creds
UpsertRaised == Ops("upsert") # <<>> /\ ~Ops("upsert")[Len(Ops("upsert"))].ok
InsertRaised == \E i \in 1..Len(run.out.ops) : run.out.ops[i].op = "insert" /\ ~run.out.ops[i].ok

\* What run_scraper returns after an exception with text msg.
ReturnsError(msg) ==
    /\ run.out.status = "error"
    /\ run.out.error_message = Some(msg)
    /\ run.out.found = IF CrawlRaised THEN 0 ELSE Len(run.scraped.rows)
    /\ run.out.upserted = 0

ErrorRecords ==
    SelectSeq(Ops("insert"), LAMBDA o : o.rec[1].status = "error")

\* C8 as stated: after an exception of the crawl, of the upsert or of the
\* run-record insert, run_scraper returns 'error' with found as crawled,
\* upserted 0, and (in a run that is not a dry run) has attempted one error
\* run record, by an insert or by a store-client creation that failed.
C8_AsStated ==
    RunDone /\ (CrawlRaised \/ UpsertRaised \/ InsertRaised)
    => /\ run.out.status = "error"
       /\ run.out.error_message # None
       /\ run.out.found = (IF CrawlRaised THEN 0 ELSE Len(run.scraped.rows))
       /\ run.out.upserted = 0
       /\ ~run.dry_run =>
             \/ Len(ErrorRecords) = 1
             \/ LET last == run.out.ops[Len(run.out.ops)]
                IN  last.op = "get_client" /\ ~last.ok

\* C8, amended: after an exception of the crawl, of the store-client
\* creation or of the upsert, run_scraper returns 'error' with the text of
\* that exception, found as crawled (0 if the crawl raised) and upserted 0,
\* and, unless dry_run is set, attempts one error run record (the insert,
\* when a store client can be made, carries the returned status and counts)
\* whose failure is swallowed; a failing insert of the success record is
\* swallowed too and the run still returns 'success'.
C8_ErrorHandling ==
    RunDone =>
       /\ CrawlRaised => ReturnsError(run.scraped.msg[1])
       /\ ClientRaised => ReturnsError(MSG_CREDENTIALS)
       /\ UpsertRaised =>
             \E msg \in {MSG_UPSERT, MSG_CARDINALITY}
                          \cup {MSG_PGRST204(c) : c \in OptionalColumns} :
                 ReturnsError(msg)
       /\ (CrawlRaised \/ ClientRaised \/ UpsertRaised) =>
             /\ Len(Ops("insert")) = Len(ErrorRecords)
             /\ Len(ErrorRecords) = IF ~run.dry_run /\ run.env.creds THEN 1 ELSE 0
             /\ ~run.dry_run =>
                   /\ run.out.ops # <<>>
                   /\ LET last == run.out.ops[Len(run.out.ops)]
                      IN  IF run.env.creds
                              THEN /\ last.op = "insert"
                                   /\ last.rec[1].listings_found = run.out.found
                                   /\ last.rec[1].listings_upserted = run.out.upserted
                                   /\ last.rec[1].error_message = run.out.error_message
                          ELSE last.op = "get_client" /\ ~last.ok
       /\ ~(CrawlRaised \/ ClientRaised \/ UpsertRaised) =>
             run.out.status = "success" /\ run.out.error_message = None

\* The upsert raised and the insert of the error run record failed as well.
C8_Witness ==
    /\ RunDone
    /\ UpsertRaised
    /\ Len(ErrorRecords) = 1
    /\ ~ErrorRecords[1].ok
    /\ run.out.status = "error"
    /\ run.out.found = 2

\* C9: with dry_run set, run_scraper performs no store operation (no client
\* creation, no upsert, no run-record insert), whether the crawl returned or
\* raised, and returns upserted = 0.
C9_DryRunNoStore ==
    RunDone /\ run.dry_run
    => /\ run.out.ops = <<>>
       /\ run.out.batch = None
       /\ run.out.upserted = 0
       /\ run.out.status = IF CrawlRaised THEN "error" ELSE "success"

\* A dry run whose crawl raised.
C9_Witness == RunDone /\ run.dry_run /\ CrawlRaised /\ run.out.status = "error"

\* C10: a non-dry run whose crawl returns no row, with the store reachable,
\* inserts exactly one run record, with status 'success' and counts (0, 0),
\* issues no upsert and returns (0, 0, 'success', None).
C10_EmptyCrawl ==
    RunDone /\ ~run.dry_run /\ ~CrawlRaised /\ run.scraped.rows = <<>>
        /\ run.env.creds /\ ~run.env.insert_fail
    => /\ Len(Ops("insert")) = 1
       /\ Ops("insert")[1].ok
       /\ Ops("insert")[1].rec[1] =
              [source |-> run.name, listings_found |-> 0, listings_upserted |-> 0,
               status |-> "success", error_message |-> None]
       /\ Ops("upsert") = <<>>
       /\ run.out.batch = None
       /\ run.out.found = 0 /\ run.out.upserted = 0
       /\ run.out.status = "success" /\ run.out.error_message = None

\* A non-dry run of a crawl that found nothing, logged in a reachable store.
C10_Witness ==
    /\ RunDone /\ ~run.dry_run /\ ~CrawlRaised /\ run.scraped.rows = <<>>
    /\ run.env.creds /\ ~run.env.insert_fail
    /\ Len(run.out.ops) = 2

----------------------------------------------------------------------------
(* The crawls: claim C6, checked under SpecCrawl. *)

CrawlDone == crawl.phase = "done"

\* C6: for every source crawl (komornik, e_licytacje, amw, olx, gratka,
\* otodom) and every page content, no row the crawl returns satisfies the
\* Error-Page Guard on its own title and description.
C6_NoFlaggedRowReturned ==
    CrawlDone => \A i \in 1..Len(crawl.out) : ~Flagged(crawl.out[i])

----------------------------------------------------------------------------
(* The Apify pipeline: claim C7, checked under SpecApify. *)

HookDone == hook.phase = "done"

\* C7: process_apify_dataset never includes in the batch it upserts an item
\* whose title and description the Error-Page Guard flags.
C7_NoFlaggedItemUpserted ==
    HookDone =>
        \A k \in 1..Len(hook.out.ops) :
            hook.out.ops[k].op = "upsert" =>
                \A i \in 1..Len(hook.out.ops[k].rows) : ~Flagged(hook.out.ops[k].rows[i])

----------------------------------------------------------------------------
(* The listings table: claims C11 to C13, checked under SpecStore. *)

StoreReady == store.phase = "ready"
Calls == IF StoreReady THEN store.calls ELSE <<>>
UpsertOps(call) == SelectSeq(call.out.ops, LAMBDA o : o.op = "upsert")

\* C11: after any sequence of upserts the table holds at most one row per
\* source_url, and upserting a batch that was just upserted leaves the table
\* as it was: the second write overwrites and adds no row.
C11_UpsertIdempotent ==
    StoreReady =>
        /\ \A i, j \in 1..Len(store.table) :
              i # j => store.table[i].source_url # store.table[j].source_url
        /\ (/\ Len(store.calls) = 2
            /\ store.calls[2].rows = store.calls[1].rows
            /\ ~store.calls[1].out.raised)
           => /\ ~store.calls[2].out.raised
              /\ store.table = store.calls[2].before

\* The same batch of two listings, one of them already stored, was upserted
\* twice, and the table holds the stored listing once, with the columns the
\* batch does not carry kept.
C11_Witness ==
    /\ StoreReady
    /\ Len(store.calls) = 2
    /\ store.calls[1].before = <<StoredRow>>
    /\ store.calls[2].rows = store.calls[1].rows
    /\ Len(store.calls[1].rows) = 2
    /\ ~HasDuplicateKeys(store.calls[1].rows)
    /\ ~store.calls[2].out.raised
    /\ Len(store.table) = 2
    /\ \E i \in 1..2 :
          /\ store.table[i].source_url = "u1"
          /\ store.table[i].status = "contacted"
          /\ store.table[i].title # StoredRow.title

\* The rows of a batch without the columns in `cols`.
Stripped(rows, cols) ==
    [i \in 1..Len(rows) |-> [k \in (DOMAIN rows[i]) \ cols |-> rows[i][k]]]

\* C12: for every non-empty subset of the optional columns region and
\* last_seen_at that the table lacks, upsert_listings ends by writing the
\* whole batch with exactly the lacking columns stripped from every row, in
\* the batch's order, and returns the written count instead of failing.
C12_MissingColumnsTolerated ==
    \A k \in 1..Len(Calls) :
        LET call == Calls[k]
            lacks == {store.env.missing[i] : i \in 1..Len(store.env.missing)}
            ops == UpsertOps(call)
        IN  (/\ call.rows # <<>>
             /\ lacks # {}
             /\ ~store.env.upsert_fail
             /\ ~(store.env.dup_fails /\ HasDuplicateKeys(call.rows)))
            => /\ ~call.out.raised
               /\ call.out.count = Len(call.rows)
               /\ ops[Len(ops)].ok
               /\ ops[Len(ops)].rows = Stripped(call.rows, lacks)

\* The message of the first statement's failure, None when it is written.
FirstFailure(call) == UpsertStatement(call.rows, store.env)

\* C13: upsert_listings retries at most once: a call issues at most two
\* upsert statements; a first failure that is no missing-optional-column
\* error is raised again without a retry; a failure of the retry is raised
\* again; a call with an empty batch issues no statement and returns 0.
C13_RetryAtMostOnce ==
    \A k \in 1..Len(Calls) :
        LET call == Calls[k]
            ops == UpsertOps(call)
            first == FirstFailure(call)
        IN  /\ Len(ops) <= 2
            /\ Len(call.out.ops) = Len(ops)
            /\ call.rows = <<>> =>
                  ops = <<>> /\ ~call.out.raised /\ call.out.count = 0
            /\ (call.rows # <<>> /\ first # None /\ first[1][1] # "PGRST204") =>
                  /\ Len(ops) = 1
                  /\ call.out.raised
                  /\ call.out.msg = first
            /\ (Len(ops) = 2 /\ ~ops[2].ok) =>
                  /\ call.out.raised
                  /\ call.out.msg # None
                  /\ call.out.count = 0
            /\ (Len(ops) = 2) =>
                  /\ ~ops[1].ok
                  /\ first[1][1] = "PGRST204"
                  /\ first[1][2] \in OptionalColumns

\* One call failed on its first statement for a reason other than a lacking
\* column, and another call's retry failed.
C13_Witness ==
    \E k \in 1..Len(Calls) :
        LET ops == UpsertOps(Calls[k])
        IN  /\ Len(ops) = 2
            /\ ~ops[2].ok
            /\ Calls[k].out.raised
            /\ \E n \in 1..Len(Calls) :
                  /\ Len(UpsertOps(Calls[n])) = 1
                  /\ Calls[n].out.raised
                  /\ Calls[n].out.msg = Some(MSG_CARDINALITY)

\* The positions of the attempts in the log of a sync_get_with_retry call,
\* and those of the attempts among its first n events.
GetsOf(log) == {i \in 1..Len(log) : log[i][1] = "get"}
GetsBefore(log, n) == {i \in GetsOf(log) : i < n}

\* C14: sync_get_with_retry surfaces a transient failure only after three
\* failed attempts; between two consecutive attempts it waits exactly once,
\* 1 second after the first failure and 2 seconds after the second; it
\* returns the first successful response, and no attempt follows a success.
C14_RetryWithBackoff ==
    LET log == fetch.log
        gets == GetsOf(log)
    IN  fetch.pc # "off" =>
          /\ Cardinality(gets) <= MAX_RETRIES
          /\ \A i \in gets :
                /\ log[i][2] = fetch.outcomes[Cardinality(GetsBefore(log, i)) + 1]
                /\ log[i][2] = "ok" => i = Len(log)
                /\ i > 1 /\ log[i - 1][1] = "sleep"
                /\ log[i - 1][2] =
                     IF GetsBefore(log, i) = {} THEN fetch.delay_seconds
                     ELSE IF Cardinality(GetsBefore(log, i)) = 1 THEN 1 ELSE 2
                /\ GetsBefore(log, i) # {} => i > 2 /\ log[i - 2][1] = "get"
          /\ (fetch.result # None /\ fetch.result[1][1] = "raised"
                /\ fetch.result[1][2] \in Transient) =>
                /\ Cardinality(gets) >= 3
                /\ \A i \in gets : log[i][2] \in Transient
                /\ fetch.result[1][2] = log[Len(log)][2]
          /\ (fetch.result # None /\ fetch.result[1][1] = "returned") =>
                /\ log[Len(log)] = <<"get", "ok">>
                /\ \A i \in gets : i < Len(log) => log[i][2] \in Transient
          /\ fetch.result # None => fetch.pc = "done"

\* A call that failed twice, waited 1 then 2 seconds and returned the third
\* response.
C14_Witness ==
    /\ fetch.pc = "done"
    /\ fetch.result = Some(<<"returned", "ok">>)
    /\ fetch.log = <<<<"sleep", fetch.delay_seconds>>, <<"get", "timeout">>,
                     <<"sleep", 1>>, <<"get", "http_error">>,
                     <<"sleep", 2>>, <<"get", "ok">>>>

----------------------------------------------------------------------------
(* The crawls' pagination, deduplication, cutoff and cap: claims C15 to     *)
(* C20, checked under SpecCrawl.                                            *)

\* The steps of one kind in the log of the finished crawl, as their second
\* parts, and the positions of a kind's steps.
StepsOf(kind) ==
    LET steps == SelectSeq(crawl.log, LAMBDA e : e[1] = kind)
    IN  [i \in 1..Len(steps) |-> steps[i][2]]
PositionsOf(kind) == {i \in 1..Len(crawl.log) : crawl.log[i][1] = kind}

NoRepeat(s) == \A i, j \in 1..Len(s) : i < j => s[i] # s[j]

\* C15: for every source crawl and every sequence of list pages, also one
\* that shows an item on two list pages, the rows the crawl returns all have
\* a non-empty source_url, and no two of them have the same source_url.
C15_DistinctSourceUrls ==
    CrawlDone =>
        /\ \A i \in 1..Len(crawl.out) :
              crawl.out[i].source_url # (IF crawl.source = "amw" THEN <<>> ELSE "")
        /\ NoRepeat([i \in 1..Len(crawl.out) |-> crawl.out[i].source_url])

\* The listing links of all list pages of the site, in the order of the
\* pages, and the position of the first link to a URL.
RECURSIVE Flatten(_)
Flatten(pages) ==
    IF pages = <<>> THEN <<>> ELSE Candidates(Head(pages)) \o Flatten(Tail(pages))
Listed == Flatten(Pages(crawl.docs, crawl.per_page))
FirstLink(url) == CHOOSE i \in 1..Len(Listed) :
                      /\ Listed[i].url = url
                      /\ \A j \in 1..(i - 1) : Listed[j].url # url

\* C16: within one crawl of komornik or e_licytacje the candidate detail URLs
\* are deduplicated before fetching: no detail URL is fetched more than once,
\* and the detail pages are fetched in the order of the URLs' first
\* occurrence across the list pages.
C16_DetailFetchedOnce ==
    (CrawlDone /\ crawl.source \in {"komornik", "e_licytacje"}) =>
        LET fetched == StepsOf("detail")
        IN  /\ NoRepeat(fetched)
            /\ \A i, j \in 1..Len(fetched) :
                  i < j => FirstLink(fetched[i]) <= FirstLink(fetched[j])

\* The list page has no candidate item: no listing link, for amw no offer.
ZeroCandidates(page) ==
    LET links == ListPage(SiteOf(crawl), page)
    IN  IF crawl.source = "amw" THEN amw_parse_list_page(links) = <<>>
        ELSE Candidates(links) = <<>>

\* C17: every crawl terminates: it fetches the list pages in strictly
\* increasing order, at most max_pages of them, and makes no fetch of a list
\* page or a detail page after a list page that yielded no candidate item.
C17_PaginationStops ==
    CrawlDone =>
        LET lists == StepsOf("list")
        IN  /\ \A i, j \in 1..Len(lists) : i < j => lists[i] < lists[j]
            /\ Len(lists) <= crawl.cfg.max_pages
            /\ \A i \in PositionsOf("list") :
                  ZeroCandidates(crawl.log[i][2]) =>
                      \A k \in (i + 1)..Len(crawl.log) : crawl.log[k][1] = "row"

\* The items of the list pages in the order a komornik or e_licytacje crawl
\* meets them, the row the detail page of an item parses to (None when the
\* fetch fails or the page is taken for an error page), and its date.
RECURSIVE ItemsOf(_)
ItemsOf(pages) ==
    IF pages = <<>> THEN <<>> ELSE parse_list_page(Head(pages)) \o ItemsOf(Tail(pages))
Shown == ItemsOf(Pages(crawl.docs, crawl.per_page))
RowOf(item) ==
    IF ~item.fetch_ok THEN None
    ELSE IF crawl.source = "komornik" THEN komornik_parse_detail_page(item)
    ELSE elicytacje_parse_detail(item)
DateOf(item) == RowOf(item)[1].auction_date[1]
Cutoff == crawl.today - crawl.cfg.days_back[1]

\* The list pages are in descending order of auction date: every item that
\* parses to a row has a date, and none is dated after an earlier one.
DescendingDates ==
    /\ \A i \in 1..Len(Shown) :
          RowOf(Shown[i]) # None => RowOf(Shown[i])[1].auction_date # None
    /\ \A i, j \in 1..Len(Shown) :
          (i < j /\ RowOf(Shown[i]) # None /\ RowOf(Shown[j]) # None)
              => DateOf(Shown[i]) >= DateOf(Shown[j])

\* A finished komornik or e_licytacje crawl with a days-back cutoff over list
\* pages in descending date order, which no failing list page, list page
\* without items, page limit or listing cap ends.
CutoffCrawl ==
    /\ CrawlDone
    /\ crawl.source \in {"komornik", "e_licytacje"}
    /\ crawl.cfg.days_back # None
    /\ crawl.fail_page = 0
    /\ \A p \in 1..Len(Pages(crawl.docs, crawl.per_page)) : ~ZeroCandidates(p)
    /\ crawl.cfg.max_pages > Len(Pages(crawl.docs, crawl.per_page))
    /\ crawl.source = "komornik" => crawl.cfg.max_listings = None
    /\ DescendingDates

\* The positions of the items older than the cutoff.
OlderItems ==
    {i \in 1..Len(Shown) : RowOf(Shown[i]) # None /\ DateOf(Shown[i]) < Cutoff}

\* C18: given list pages whose items are in descending auction-date order
\* and a days-back cutoff, a komornik or e_licytacje crawl returns exactly
\* the items dated at or after the cutoff, which are a prefix of the items,
\* and its last fetch is the detail page of the first item older than the
\* cutoff: no further detail page of that list page and no further list
\* page is fetched.
C18_CutoffPrefix ==
    CutoffCrawl =>
        LET kept == SelectSeq(Shown, LAMBDA x : RowOf(x) # None /\ DateOf(x) >= Cutoff)
        IN  /\ Len(crawl.out) = Len(kept)
            /\ \A i \in 1..Len(kept) :
                  /\ crawl.out[i].source_url = kept[i].url
                  /\ crawl.out[i].auction_date = kept[i].date
            /\ \A i \in OlderItems, j \in 1..Len(Shown) :
                  (RowOf(Shown[j]) # None /\ DateOf(Shown[j]) >= Cutoff) => j < i
            /\ OlderItems # {} =>
                  LET first == CHOOSE i \in OlderItems : \A j \in OlderItems : i <= j
                  IN  /\ crawl.log[Len(crawl.log)] = <<"detail", Shown[first].url>>
                      /\ Len(StepsOf("detail")) = first

\* A crawl that kept a listing dated exactly at the cutoff, met an older one
\* on the next list page and stopped while a further list page was allowed.
C18_Witness ==
    /\ CutoffCrawl
    /\ crawl.per_page = 1
    /\ Len(crawl.out) = 1
    /\ crawl.out[1].auction_date = Some(Cutoff)
    /\ OlderItems = {2}
    /\ StepsOf("list") = <<1, 2>>
    /\ crawl.cfg.max_pages > 2

\* C19: for every crawl the on-demand trigger runs (komornik, e_licytacje,
\* amw) and every configured maximum M >= 1 of listings, the crawl returns at
\* most M listings and makes no fetch after it accumulated the M-th, also in
\* the middle of a list page.
C19_CapStopsCrawl ==
    (/\ CrawlDone
     /\ crawl.source \in {"komornik", "e_licytacje", "amw"}
     /\ crawl.cfg.max_listings # None) =>
        LET M == crawl.cfg.max_listings[1]
            rows == SelectSeq([i \in 1..Len(crawl.log) |-> <<i, crawl.log[i][1]>>],
                              LAMBDA e : e[2] = "row")
        IN  /\ Len(crawl.out) <= M
            /\ Len(rows) >= M =>
                  \A k \in (rows[M][1] + 1)..Len(crawl.log) :
                      crawl.log[k][1] \notin {"list", "detail"}

\* C20: taking the content hash to be injective, the fallback source_url of
\* an AMW item is a function of its title, price and auction date only, and
\* two items get the same source_url if and only if they agree on all three,
\* where a field may also be absent: a change of one of them, also between
\* absent and a value, yields another source_url.
C20_FallbackUrlIdentity ==
    (CrawlDone /\ crawl.source = "amw") =>
        LET items == amw_parse_list_page(crawl.docs)
        IN  \A i, j \in 1..Len(items) :
                (items[i].source_url = items[j].source_url)
                    <=> /\ items[i].title = items[j].title
                        /\ items[i].price_pln = items[j].price_pln
                        /\ items[i].auction_date = items[j].auction_date

----------------------------------------------------------------------------
(* The AMW detail link, the per-item and per-page failures of the crawls:  *)
(* claims C21 to C23 and C30, checked under SpecCrawl.                      *)

\* The absolute URL of an offer path under the AMW base URL.
OfferUrl(path) == <<"amw", path>>

\* C21: when an AMW list card contains a detail link, the listing's
\* source_url is the absolute offer URL under the base URL, without a '#'
\* fragment; the hash-fragment source_url is produced only for a card that
\* has no detail link.
C21_DetailLinkUrl ==
    (CrawlDone /\ crawl.source = "amw") =>
        \A k \in 1..Len(crawl.docs) :
            LET card == crawl.docs[k]
                items == amw_parse_list_page(<<card>>)
            IN  items # <<>> =>
                    /\ card.url # "" => items[1].source_url = OfferUrl(card.url)
                    /\ items[1].source_url[1] = "amw#" => card.url = ""

\* The site of the crawl with every detail page fetched and parsed without
\* failure, the crawl of it, and the URLs whose detail page fails.
Healed ==
    [SiteOf(crawl) EXCEPT !.pages =
        [p \in 1..Len(@) |-> [i \in 1..Len(@[p]) |-> [@[p][i] EXCEPT !.fetch_ok = TRUE]]]]
HealedCrawl == scrape(crawl.source, Healed, crawl.cfg)
FailingUrls == {crawl.docs[i].url : i \in {k \in 1..Len(crawl.docs) : ~crawl.docs[k].fetch_ok}}
Fetches(log) == SelectSeq(log, LAMBDA e : e[1] \in {"list", "detail"})

\* C22: in a crawl with detail pages (komornik, e_licytacje, olx, gratka,
\* otodom), a failure while fetching or parsing one item's detail page
\* removes only that item from the output and never aborts the crawl: the
\* crawl makes the fetches it makes when no detail page fails, and returns
\* the rows it returns then, less those of the failing items.  (Without a
\* listing cap and a cutoff, which count or date the rows themselves.)
C22_ItemFailureSkipsItem ==
    (/\ CrawlDone
     /\ crawl.source \in DetailSources
     /\ crawl.cfg.max_listings = None
     /\ crawl.cfg.days_back = None) =>
        /\ crawl.raised = HealedCrawl.raised
        /\ Fetches(crawl.log) = Fetches(HealedCrawl.log)
        /\ crawl.out = SelectSeq(HealedCrawl.results,
                                 LAMBDA r : r.source_url \notin FailingUrls)

\* A crawl whose first detail page failed and which went on to fetch a
\* detail page of the next list page and returned its row.
C22_Witness ==
    /\ CrawlDone
    /\ crawl.source \in DetailSources
    /\ crawl.cfg.max_listings = None /\ crawl.cfg.days_back = None
    /\ crawl.per_page = 1
    /\ Len(crawl.docs) = 2
    /\ ~crawl.docs[1].fetch_ok
    /\ Len(crawl.out) = 1
    /\ crawl.out[1].source_url = crawl.docs[2].url
    /\ StepsOf("detail") = <<crawl.docs[1].url, crawl.docs[2].url>>

\* The crawl of the same site without the failing list page, limited to the
\* list pages before it.
EarlierPages ==
    scrape(crawl.source, [SiteOf(crawl) EXCEPT !.fail_page = 0],
           [crawl.cfg EXCEPT !.max_pages = crawl.fail_page - 1])

\* C23: when the fetch of a list page fails, the crawl of that source stops
\* without raising, makes no further fetch, and returns exactly the listings
\* it accumulated from the earlier pages.
C23_ListFailureKeepsRows ==
    (/\ CrawlDone
     /\ \E i \in PositionsOf("list") : crawl.log[i][2] = crawl.fail_page) =>
        /\ ~crawl.raised
        /\ crawl.log[Len(crawl.log)] = <<"list", crawl.fail_page>>
        /\ crawl.out = EarlierPages.results

----------------------------------------------------------------------------
(* The archive step: claim C24, checked under SpecArchive. *)

\* C24: an archive step for a source and a threshold N marks as removed no
\* listing that one of the N most recent successful runs of the source
\* upserted, whether or not the runs overlapped in time.
C24_ArchiveSparesRecentRuns ==
    (store.phase = "archive" /\ store.archived # None) =>
        LET a == store.archived[1]
        IN  \A u \in a.marked : \A i \in DOMAIN a.data :
               u \notin store.scrape_runs[a.data[i]].rows

----------------------------------------------------------------------------
(* Missing credentials: claim C25, checked under SpecRun. *)

\* C25: a run_scraper call that is no dry run and finds no store credentials
\* fails with the configuration error at its start: it has sent no request
\* to the source, it has written nothing to the store and it has asked for
\* the store client once.
C25_MissingCredentialFailsFirst ==
    (RunDone /\ ~run.dry_run /\ ~run.env.creds) =>
        /\ run.out.requests = 0
        /\ run.out.status = "error"
        /\ run.out.error_message = Some(MSG_CREDENTIALS)
        /\ run.out.ops = <<StoreOp("get_client", <<>>, None, FALSE)>>

----------------------------------------------------------------------------
(* The price parser: claims C26 and C27, checked under SpecPrice. *)

PriceDone == parse.phase = "done" /\ parse.fn = "price_pln_from_text"

HasNoPricePhrase(text) ==
    \E phrase \in NO_PRICE_PHRASES : Contains(Lower(text), phrase)

HasDigit(text) == \E i \in 1..Len(text) : IsDigit(text[i])

\* C26: for every text whose lower-cased form contains a no-price phrase the
\* parser returns no price, whatever numbers the text holds.
C26_NoPricePhraseAbsent ==
    (PriceDone /\ parse.text # None /\ HasNoPricePhrase(parse.text[1])) =>
        parse.out = None

\* A phrase written in capitals, followed by a number, gave no price.
C26_Witness ==
    /\ PriceDone /\ parse.text # None
    /\ HasNoPricePhrase(parse.text[1])
    /\ \A phrase \in NO_PRICE_PHRASES : ~Contains(parse.text[1], phrase)
    /\ HasDigit(parse.text[1])
    /\ parse.out = None

\* The grosze of the numeric token read from position i on, acc being the
\* value of the digits read so far: digits count, spaces and dots separate
\* thousands, a comma with two digits gives the decimals and ends the token,
\* as does any other character.
RECURSIVE TokenGrosze(_, _, _)
TokenGrosze(text, i, acc) ==
    IF i > Len(text) THEN 100 * acc
    ELSE IF IsDigit(text[i]) THEN TokenGrosze(text, i + 1, 10 * acc + DigitValue(text[i]))
    ELSE IF IsSpace(text[i]) \/ text[i] = "." THEN TokenGrosze(text, i + 1, acc)
    ELSE IF /\ text[i] = ","
            /\ i + 2 <= Len(text)
            /\ IsDigit(text[i + 1])
            /\ IsDigit(text[i + 2])
        THEN 100 * acc + 10 * DigitValue(text[i + 1]) + DigitValue(text[i + 2])
    ELSE 100 * acc

RECURSIVE FirstTokenGrosze(_)
FirstTokenGrosze(text) ==
    IF IsDigit(Head(text)) THEN TokenGrosze(text, 1, 0)
    ELSE FirstTokenGrosze(Tail(text))

\* C27: for every text without a no-price phrase the parser returns no price
\* or a natural number, 100 times the first numeric token of the text;
\* "1 234,56 zl" gives 123456, "900 PLN" gives 90000, the empty text nothing.
C27_PriceIsTokenInGrosze ==
    (PriceDone /\ (parse.text # None => ~HasNoPricePhrase(parse.text[1]))) =>
        /\ parse.out # None =>
              /\ parse.out[1] \in Nat
              /\ parse.out[1] = FirstTokenGrosze(parse.text[1])
        /\ parse.text = Some(Text_Price1) => parse.out = Some(123456)
        /\ parse.text = Some(Text_Price2) => parse.out = Some(90000)
        /\ parse.text \in {None, Some(<<>>)} => parse.out = None

\* A price with a dot between its digits was read as a whole number of
\* zloty, after a label and before the currency.
C27_Witness ==
    /\ PriceDone /\ parse.text # None /\ parse.out = Some(1500)
    /\ \E i \in 1..Len(parse.text[1]) : parse.text[1][i] = "."
    /\ Contains(parse.text[1], Text_Cena)
    /\ Contains(parse.text[1], Text_Zl)

----------------------------------------------------------------------------
(* The AMW date parser: claim C28, checked under SpecDate. *)

DateDone == parse.phase = "done" /\ parse.fn = "_parse_auction_date"

\* The numbers the text was written with, the time being 10:00 when the text
\* gives none.
Given ==
    LET p == parse.parts
    IN  [year |-> DigitsValue(p.year), month |-> DigitsValue(p.month),
         day |-> DigitsValue(p.day),
         hour |-> IF p.time = None THEN 10 ELSE DigitsValue(p.time[1][1]),
         minute |-> IF p.time = None THEN 0 ELSE DigitsValue(p.time[1][2])]

\* A day of the calendar: the months of 31 and of 30 days, February of 28
\* days and of 29 in the years divisible by 4 that are no century, and in
\* those divisible by 400.
OnCalendar(g) ==
    /\ g.year >= 1
    /\ \/ g.month \in {1, 3, 5, 7, 8, 10, 12} /\ g.day \in 1..31
       \/ g.month \in {4, 6, 9, 11} /\ g.day \in 1..30
       \/ g.month = 2 /\ g.day \in 1..28
       \/ /\ g.month = 2 /\ g.day = 29
          /\ (g.year % 4 = 0 /\ g.year % 100 # 0) \/ g.year % 400 = 0

OnClock(g) == g.hour <= 23 /\ g.minute <= 59

\* C28: for a text 'day.month.year[r], godz. HH:MM' the parser returns
\* nothing when the date is not on the calendar or the time not on the
\* clock, and otherwise the Europe/Warsaw time with the fields of the text,
\* 10:00 being the time when the text gives none.
C28_DateFieldsOrAbsent ==
    DateDone =>
        IF OnCalendar(Given) /\ OnClock(Given)
            THEN parse.out =
                    Some([year |-> Given.year, month |-> Given.month, day |-> Given.day,
                          hour |-> Given.hour, minute |-> Given.minute,
                          tz |-> "Europe/Warsaw"])
        ELSE parse.out = None

\* 31.02.2026 was refused.
C28_Witness ==
    /\ DateDone
    /\ Given.day = 31 /\ Given.month = 2 /\ Given.year = 2026
    /\ OnClock(Given)
    /\ parse.out = None

----------------------------------------------------------------------------
(* The title of a Facebook listing: claim C29, checked under SpecApify. *)

\* C29: every listing made from a Facebook item, whatever the length of its
\* text, has a title that is not empty and of 500 characters at most, the
\* ellipsis counted.
C29_TitleAtMost500 ==
    (HookDone /\ hook.out.batch # None) =>
        \A i \in 1..Len(hook.out.batch[1]) :
            LET title == Get(hook.out.batch[1][i], "title")
            IN  title # None /\ Len(title[1]) \in 1..500

----------------------------------------------------------------------------
(* The days-back window: claim C30, checked under SpecCrawl. *)

AuctionSources == {"komornik", "e_licytacje", "amw"}

\* C30: with a days-back window set, no row returned by the crawl of an
\* auction source has an auction date earlier than today minus the window,
\* in whatever order the source lists its items.
C30_NoRowBeforeWindow ==
    (CrawlDone /\ crawl.source \in AuctionSources /\ crawl.cfg.days_back # None) =>
        \A i \in 1..Len(crawl.out) :
            crawl.out[i].auction_date # None => crawl.out[i].auction_date[1] >= Cutoff

----------------------------------------------------------------------------
(* The budget of one on-demand run: claim C31, checked under SpecWorker. *)

RECURSIVE TotalFound(_)
TotalFound(results) ==
    IF results = <<>> THEN 0
    ELSE Head(results).listings_found + TotalFound(Tail(results))

\* C31: in one on-demand run the listings_found of all sources add up to at
\* most the on-demand cap; the remaining budget is never negative; and every
\* source reached after the budget is used up is reported 'skipped' with
\* zero counts.
C31_TotalWithinCap ==
    \A w \in Triggers :
        ~MaxListingsRaises(config) =>
            LET results == worker[w].results
            IN  /\ TotalFound(results) <= MaxListings(config)
                /\ worker[w].remaining >= 0
                /\ \A i \in 1..Len(results) :
                      TotalFound(SubSeq(results, 1, i - 1)) >= MaxListings(config) =>
                          /\ results[i].status = "skipped"
                          /\ results[i].listings_found = 0
                          /\ results[i].listings_upserted = 0

----------------------------------------------------------------------------
(* The secret checks: claim C32, checked under SpecAuth. *)

NonBlank(s) == s # None /\ \E i \in 1..Len(s[1]) : ~IsSpace(s[1][i])

\* The secret configured for an endpoint: apify.webhook_secret for the
\* webhook; run_api.secret for the run endpoints, and apify.webhook_secret
\* when run_api.secret is not given.  None when no secret is configured.
ConfiguredSecret(e) ==
    IF e = "webhook_apify"
        THEN IF NonBlank(config.webhook_secret) THEN config.webhook_secret ELSE None
    ELSE IF NonBlank(config.run_api_secret) THEN config.run_api_secret
    ELSE IF config.run_api_secret \in {None, Some(<<>>)} /\ NonBlank(config.webhook_secret)
        THEN config.webhook_secret
    ELSE None

\* A header that is missing or differs from the configured secret.
WrongSecret(e, provided) ==
    provided = None \/ provided[1] # Strip(ConfiguredSecret(e)[1])

Rejected(e) ==
    /\ req[e].pc = "done"
    /\ ConfiguredSecret(e) # None
    /\ WrongSecret(e, req[e].provided)

----------------------------------------------------------------------------
(* The archive step's guard: claim C33, checked under SpecArchiveCall. *)

\* The successful runs of a source that have a finish time.
FinishedRuns(source) ==
    {i \in DOMAIN store.scrape_runs :
        /\ store.scrape_runs[i].source = source
        /\ store.scrape_runs[i].status = "success"
        /\ "finished_at" \in DOMAIN store.scrape_runs[i]}

\* Run i is an n-th most recent of the runs in `of`: fewer than n of them
\* finished later, and at least n finished no earlier.
NthMostRecent(i, n, of) ==
    /\ i \in of
    /\ Cardinality({j \in of : store.scrape_runs[j].finished_at
                                   > store.scrape_runs[i].finished_at}) < n
    /\ Cardinality({j \in of : store.scrape_runs[j].finished_at
                                   >= store.scrape_runs[i].finished_at}) >= n

ArchiveCalled == store.phase = "done" /\ store.archived # None

\* C33: the archive operation is invoked only when the source has at least N
\* successful runs with a finish time, with the start time of the N-th most
\* recent of them as cutoff; with fewer runs, or when the query or the
\* operation fails, nothing is marked, 0 is returned and nothing is raised.
C33_ArchiveGuard ==
    ArchiveCalled =>
        LET a == store.archived[1]
            runs == FinishedRuns(a.source)
        IN  /\ a.cutoff # None =>
                  /\ Cardinality(runs) >= a.n
                  /\ \E i \in runs : /\ NthMostRecent(i, a.n, runs)
                                     /\ a.cutoff[1] = store.scrape_runs[i].started_at
            /\ (Cardinality(runs) < a.n \/ a.failed) =>
                  /\ store.listings = store.before
                  /\ a.marked = {}
                  /\ a.returned = 0
            /\ ~a.raised

C33_Witness ==
    /\ ArchiveCalled
    /\ store.archived[1].n = 2
    /\ store.archived[1].cutoff # None
    /\ store.archived[1].returned = 1
    /\ Len(store.scrape_runs) = 2
    /\ store.scrape_runs[1].started_at # store.scrape_runs[2].started_at

\* C33, the other cases: a call with too few runs and a call whose operation
\* fails.
C33_WitnessFailure ==
    /\ ArchiveCalled
    /\ store.archived[1].failed
    /\ store.archived[1].cutoff # None
    /\ \E u \in UrlsOf(store.archived[1].source) :
          /\ store.listings[u].last_seen_at # None
          /\ ~store.listings[u].removed
          /\ store.listings[u].last_seen_at[1] < store.archived[1].cutoff[1]

----------------------------------------------------------------------------
(* The sources of the command line: claim C34, checked under SpecCli. *)

\* C34: every source name the command 'run' accepts is crawled by run_one;
\* run_one raises the unknown-source error only for other names, and then
\* performs no crawl and no store operation.
C34_AcceptedSourcesRun ==
    run.phase = "done" =>
        /\ run.source \in CLI_CHOICES => (run.out.crawled /\ ~run.out.raised)
        /\ run.out.raised =>
              /\ run.source \notin CLI_CHOICES
              /\ ~run.out.crawled
              /\ run.out.out = None

----------------------------------------------------------------------------
(* The order of the sources: claim C35, checked under SpecSequenceFair. *)

ConfiguredOrder == <<"komornik", "e_licytacje", "amw">>
Position(name) == CHOOSE k \in 1..Len(ConfiguredOrder) : ConfiguredOrder[k] = name

\* The number of sources the loop is through with among the first k events.
Through(k) == Cardinality({j \in 1..k : run.log[j][1] # "begin"})

\* Every crawl that began has returned before the next event, the sources
\* are taken up in the configured order, and a source is left out only when
\* the listings found so far have used up the on-demand cap.
OneAtATime ==
    LET log == run.log
    IN  /\ \A k \in 1..Len(log) :
              /\ log[k][1] = "begin" =>
                    IF k = Len(log) THEN run.pc = "crawling"
                    ELSE log[k + 1][1] = "end" /\ log[k + 1][2] = log[k][2]
              /\ log[k][1] = "end" => (k > 1 /\ log[k - 1] = <<"begin", log[k][2]>>)
              /\ log[k][1] = "skip" =>
                    /\ run.mode = "on_demand"
                    /\ TotalFound(SubSeq(run.results, 1, Through(k) - 1))
                           >= MaxListings(run.cfg)
        /\ \A j, k \in 1..Len(log) :
              (j < k /\ log[j][1] # "end" /\ log[k][1] # "end") =>
                  Position(log[j][2]) < Position(log[k][2])

ErrorEnded == \E k \in 1..Len(run.log) : run.log[k][1] = "end" /\ run.log[k][3] = "error"

\* Every source of the run has been taken up: its crawl began, or the cap
\* left it out.
AllTakenUp ==
    \A i \in 1..Len(SeqScrapers) :
        \E k \in 1..Len(run.log) :
            run.log[k][1] # "end" /\ run.log[k][2] = SeqScrapers[i]

\* C35: in run_all and in the on-demand run the sources are crawled one
\* after another in the configured order, no crawl beginning before the
\* previous one has returned; and after a source has ended with status
\* 'error' every later source is still taken up.
C35_OneAfterAnother ==
    /\ [](run.phase = "seq" => OneAtATime)
    /\ (run.phase = "seq" /\ ErrorEnded) ~> (run.phase = "seq" /\ AllTakenUp)

C35_Witness ==
    /\ run.phase = "seq" /\ run.pc = "done"
    /\ run.mode = "on_demand"
    /\ Len(run.log) = 6
    /\ run.log[2] = <<"end", "komornik", "error">>
    /\ run.log[3] = <<"begin", "e_licytacje">>
    /\ run.log[6] = <<"end", "amw", "success">>

----------------------------------------------------------------------------
(* The run record: claim C36, checked under SpecRun. *)

\* C36: a run_scraper call that is no dry run attempts at most one
\* run-record insert, never writes both a success and an error record, and
\* the record carries the status and the counts the call returns.
C36_OneRunRecord ==
    (RunDone /\ ~run.dry_run) =>
        LET inserts == Ops("insert")
        IN  /\ Len(inserts) <= 1
            /\ ~(\E i, j \in 1..Len(inserts) :
                    /\ inserts[i].ok /\ inserts[j].ok
                    /\ inserts[i].rec[1].status = "success"
                    /\ inserts[j].rec[1].status = "error")
            /\ \A i \in 1..Len(inserts) :
                  /\ inserts[i].rec[1].status = run.out.status
                  /\ inserts[i].rec[1].listings_found = run.out.found
                  /\ inserts[i].rec[1].listings_upserted = run.out.upserted

C36_Witness ==
    /\ RunDone /\ ~run.dry_run
    /\ Len(Ops("insert")) = 1
    /\ Ops("insert")[1].ok
    /\ Ops("insert")[1].rec[1].status = "error"
    /\ run.out.found = 2
    /\ UpsertRaised

----------------------------------------------------------------------------
(* A failed list page and the run's status: claim C37, checked under *)
(* SpecCrawl.                                                        *)

ListFetchFailed ==
    \E i \in PositionsOf("list") : crawl.log[i][2] = crawl.fail_page

\* run_scraper on the crawl as it ended, with the store working (the status
\* and the counts do not depend on what the rows hold).
RunOfCrawl ==
    run_scraper(crawl.source,
                IF crawl.raised THEN ScrapeRaised
                ELSE Scraped([i \in 1..Len(crawl.out) |-> ListingRow]),
                FALSE, EnvOk)

\* C37: when the fetch of a list page of a crawl fails, the run of that
\* source is neither returned nor recorded with status 'success'.
C37_ListFailureNotSuccess ==
    (CrawlDone /\ ListFetchFailed) =>
        /\ RunOfCrawl.status # "success"
        /\ \A i \in 1..Len(RunOfCrawl.ops) :
              RunOfCrawl.ops[i].op = "insert" => RunOfCrawl.ops[i].rec[1].status # "success"

----------------------------------------------------------------------------
(* The region filter of komornik: claim C38, checked under SpecRegion. *)

\* The documents on the first max_pages list pages of the site.
OnFirstPages ==
    {crawl.docs[i] :
        i \in {k \in 1..Len(crawl.docs) : k <= crawl.cfg.max_pages * crawl.per_page}}

\* C38: with a region filter set, the komornik crawl returns every listing
\* of that region on any of the first max_pages list pages, also when an
\* earlier list page has rows but none in the region.
C38_RegionListingsAllReturned ==
    (CrawlDone /\ crawl.source = "komornik" /\ crawl.cfg.komornik_region # None) =>
        \A d \in OnFirstPages :
            d.region = crawl.cfg.komornik_region =>
                \E i \in 1..Len(crawl.out) : crawl.out[i].source_url = d.url

====
